---- MODULE Spec2Model ----
(***************************************************************************)
(* AcuTrace backend: party ledger (EntityNormalizer), statement upload     *)
(* endpoints (main.py) and the extractors' party detection.                *)
(*                                                                         *)
(* Strings are sequences of one-character strings, so that the regular     *)
(* expressions of the source (prefix/suffix stripping, whitespace           *)
(* collapsing, truncation) are computed character by character.            *)
(***************************************************************************)
EXTENDS Integers, Sequences, FiniteSets, TLC

(* ------------------------------------------------------------------ *)
(* Character classes and string primitives (Python str / re)           *)
(* ------------------------------------------------------------------ *)
UpperLetters ==
    <<"A","B","C","D","E","F","G","H","I","J","K","L","M",
      "N","O","P","Q","R","S","T","U","V","W","X","Y","Z">>

LowerLetters ==
    <<"a","b","c","d","e","f","g","h","i","j","k","l","m",
      "n","o","p","q","r","s","t","u","v","w","x","y","z">>

Digits ==
    {"0","1","2","3","4","5","6","7","8","9"}

IsUpperLetter(c) ==
    \E i \in 1..26 : UpperLetters[i] = c

IsLowerLetter(c) ==
    \E i \in 1..26 : LowerLetters[i] = c

IsLetter(c) ==
    IsUpperLetter(c) \/ IsLowerLetter(c)

IsDigit(c) ==
    c \in Digits

\* \s of the re module, over the characters the model uses
IsSpace(c) ==
    c = " "

\* \w of the re module: letters, digits and the underscore
IsWordChar(c) ==
    IsLetter(c) \/ IsDigit(c) \/ c = "_"

UpperChar(c) ==
    IF IsLowerLetter(c)
    THEN UpperLetters[CHOOSE i \in 1..26 : LowerLetters[i] = c]
    ELSE c

LowerChar(c) ==
    IF IsUpperLetter(c)
    THEN LowerLetters[CHOOSE i \in 1..26 : UpperLetters[i] = c]
    ELSE c

\* str.upper()
Upper(s) ==
    SubSeq([i \in 1..Len(s) |-> UpperChar(s[i])], 1, Len(s))

\* str.lower()
Lower(s) ==
    SubSeq([i \in 1..Len(s) |-> LowerChar(s[i])], 1, Len(s))

MinOf(S) ==
    CHOOSE x \in S : \A y \in S : x <= y

MaxOf(S) ==
    CHOOSE x \in S : \A y \in S : x >= y

\* s[i:] of Python, with i counted from 1
Drop(s, i) ==
    SubSeq(s, i, Len(s))

NonSpaces(s) ==
    {i \in 1..Len(s) : ~IsSpace(s[i])}

StripTo(s, keep) ==
    IF keep = {} THEN <<>> ELSE SubSeq(s, MinOf(keep), MaxOf(keep))

\* str.strip()
Strip(s) ==
    StripTo(s, NonSpaces(s))

LStripTo(s, keep) ==
    IF keep = {} THEN <<>> ELSE Drop(s, MinOf(keep))

\* str.lstrip(), the effect of a trailing \s* in a pattern anchored at ^
LStrip(s) ==
    LStripTo(s, NonSpaces(s))

\* marker of a deleted character, dropped by Compact
Deleted ==
    "<del>"

Compact(s) ==
    SelectSeq(s, LAMBDA c : c # Deleted)

\* the least element of S, or default when S is empty
FirstOr(S, default) ==
    IF S = {} THEN default ELSE MinOf(S)

\* last position of the maximal run of non-space characters starting at j
WordEnd(s, j) ==
    FirstOr({k \in j..Len(s) : IsSpace(s[k])}, Len(s) + 1) - 1

WordStarts(s) ==
    {i \in 1..Len(s) : ~IsSpace(s[i]) /\ (i = 1 \/ IsSpace(s[i - 1]))}

\* the k-th element of a set of numbers, in increasing order
NthOf(S, k) ==
    CHOOSE x \in S : Cardinality({y \in S : y < x}) = k - 1

WordFrom(s, j) ==
    SubSeq(s, j, WordEnd(s, j))

SplitAt(s, starts) ==
    [k \in 1..Cardinality(starts) |-> WordFrom(s, NthOf(starts, k))]

\* str.split(): the maximal runs of non-space characters, in order
Split(s) ==
    SplitAt(s, WordStarts(s))

\* ' '.join(words)
RECURSIVE Join(_)
Join(words) ==
    IF Len(words) = 0 THEN <<>>
    ELSE IF Len(words) = 1 THEN words[1]
    ELSE words[1] \o <<" ">> \o Join(Tail(words))

\* a stripped string with every space that follows a space dropped
SingleSpaced(t) ==
    Compact([i \in 1..Len(t) |->
               IF IsSpace(t[i]) /\ IsSpace(t[i - 1]) THEN Deleted ELSE t[i]])

\* ' '.join(s.split()): no leading or trailing space, runs of spaces become one
CollapseSpaces(s) ==
    SingleSpaced(Strip(s))

\* the literal w occurs in s at position i
MatchAt(s, i, w) ==
    /\ i >= 1
    /\ i + Len(w) - 1 <= Len(s)
    /\ SubSeq(s, i, i + Len(w) - 1) = w

\* the literal w occurs somewhere in s ("w in s")
Contains(s, w) ==
    \E i \in 1..(Len(s) + 1) : MatchAt(s, i, w)

WordAt(s, i) ==
    i >= 1 /\ i <= Len(s) /\ IsWordChar(s[i])

\* \b between positions i-1 and i
Boundary(s, i) ==
    WordAt(s, i - 1) # WordAt(s, i)

\* the positions where \bw\b matches in s
WordMatches(s, w) ==
    {i \in 1..Len(s) : MatchAt(s, i, w) /\ Boundary(s, i) /\ Boundary(s, i + Len(w))}

\* s with the n characters at each position of starts replaced by repl
ReplaceMatches(s, starts, n, repl) ==
    Compact([i \in 1..Len(s) |->
               IF i \in starts THEN repl
               ELSE IF \E m \in starts : m < i /\ i < m + n THEN Deleted
               ELSE s[i]])

\* re.sub(r'\b' + w + r'\b', repl, s) for a replacement of at most one
\* character (repl = Deleted for the empty replacement).  Two matches cannot
\* overlap: a match starts and ends at a word boundary and w has only word
\* characters.
ReSubWord(s, w, repl) ==
    ReplaceMatches(s, WordMatches(s, w), Len(w), repl)

\* str.isdigit() on a non-empty word
IsDigitWord(w) ==
    w # <<>> /\ \A i \in 1..Len(w) : IsDigit(w[i])

\* [w for w in words if len(w) > 2 and not w.isdigit()]
Meaningful(words) ==
    SelectSeq(words, LAMBDA w : Len(w) > 2 /\ ~IsDigitWord(w))

\* words[:n]
Take(words, n) ==
    SubSeq(words, 1, IF Len(words) < n THEN Len(words) ELSE n)

\* for word in words: s = re.sub(r'\bword\b', ' ', s)
\* (nothing is left to remove from an empty string)
RECURSIVE RemoveWords(_, _)
RemoveWords(s, words) ==
    IF Len(s) = 0 \/ Len(words) = 0 THEN s
    ELSE RemoveWords(ReSubWord(s, words[1], " "), Tail(words))
(* ------------------------------------------------------------------ *)
(* EntityNormalizer: tables                                            *)
(* ------------------------------------------------------------------ *)
\* Optional[str] None; a one-element sequence no string of the model equals
None ==
    <<"None">>

suffixes_to_remove ==
    << <<"T","R","A","D","E","R","S">>, <<"T","R","D","G">>,
       <<"T","R","D">>, <<"A","G","E","N","C","I","E","S">>,
       <<"A","G","Y">>, <<"E","N","T","E","R","P","R","I","S","E","S">>,
       <<"E","N","T","P">>, <<"S","E","R","V","I","C","E","S">>,
       <<"S","R","V">>, <<"S","O","L","U","T","I","O","N","S">>,
       <<"S","O","L","N">>, <<"P","V","T">>,
       <<"L","T","D">>, <<"L","I","M","I","T","E","D">>,
       <<"C","O","R","P">>, <<"C","O","R","P","O","R","A","T","I","O","N">>,
       <<"I","N","C">>, <<"C","O","M","P","A","N","Y">>,
       <<"C","O">>, <<"H","O","L","D","I","N","G","S">>,
       <<"H","D","G">>, <<"I","N","D","U","S","T","R","I","E","S">>,
       <<"C","O","N","S","T","R","U","C","T","I","O","N","S">>, <<"D","E","V","E","L","O","P","E","R","S">>,
       <<"R","E","A","L","T","Y">>, <<"E","S","T","A","T","E","S">> >>

merchant_aliases ==
    << << <<"A","M","Z","N">>, <<"A","M","A","Z","O","N">> >>,
       << <<"A","Z">>, <<"A","M","A","Z","O","N">> >>,
       << <<"F","L","I","P">>, <<"F","L","I","P","K","A","R","T">> >>,
       << <<"S","W","I","G","G","Y">>, <<"S","W","I","G","G","Y">> >>,
       << <<"Z","O","M","A","T","O">>, <<"Z","O","M","A","T","O">> >>,
       << <<"M","Y","N">>, <<"M","Y","N","T","R","A">> >>,
       << <<"N","Y","K">>, <<"N","Y","K","A","A">> >>,
       << <<"G","P","A","Y">>, <<"G","P","A","Y">> >>,
       << <<"P","H","O","N","E","P","E">>, <<"P","H","O","N","E","P","E">> >>,
       << <<"P","A","Y","T","M">>, <<"P","A","Y","T","M">> >>,
       << <<"A","M","A","Z","N">>, <<"A","M","A","Z","O","N">> >>,
       << <<"U","B","E","R">>, <<"U","B","E","R">> >>,
       << <<"O","L","A">>, <<"O","L","A">> >>,
       << <<"I","R","C","T","C">>, <<"I","R","C","T","C">> >>,
       << <<"M","M">>, <<"M","A","K","E"," ","M","Y"," ","T","R","I","P">> >> >>

\* alternatives of the prefix pattern of _normalize_name, in pattern order
normalize_prefixes ==
    << <<"T","O">>, <<"F","R","O","M">>, <<"F","O","R">>, <<"A","T">>,
       <<"O","N">>, <<"B","Y">>, <<"R","E","F">>, <<"R","E","F","N","O">>,
       <<"N","O">>, <<"N","E","W">>, <<"A","C">>, <<"A","C","C">>,
       <<"A","C","C","O","U","N","T">>, <<"T","R","A","N","S","F","E","R">>, <<"T","R","F">> >>

\* alternatives of the prefix pattern of _extract_party_advanced
advanced_prefixes ==
    << <<"T","O">>, <<"F","R","O","M">>, <<"F","O","R">>, <<"A","T">>,
       <<"O","N">>, <<"B","Y">>, <<"R","E","F">>, <<"R","E","F","N","O">>,
       <<"N","O">>, <<"N","E","W">>, <<"A","C">>, <<"A","C","C">>,
       <<"A","C","C","O","U","N","T">> >>

\* prepositions tried by _extract_party_advanced, in order
advanced_patterns ==
    << <<"T","O">>, <<"F","O","R">>, <<"F","R","O","M">>, <<"A","T">>, <<"O","N">> >>

\* transaction_words of _extract_party_advanced
transaction_words_advanced ==
    << <<"D","E","P","O","S","I","T">>, <<"W","I","T","H","D","R","A","W","A","L">>, <<"P","A","Y","M","E","N","T">>,
       <<"T","R","A","N","S","F","E","R">>, <<"C","R","E","D","I","T">>, <<"D","E","B","I","T">>,
       <<"B","A","L","A","N","C","E">>, <<"C","H","A","R","G","E","S">>, <<"F","E","E">>,
       <<"T","A","X">>, <<"E","M","I">>, <<"B","I","L","L">>,
       <<"S","A","L","A","R","Y">>, <<"I","N","T","E","R","E","S","T">>, <<"D","I","V","I","D","E","N","D">>,
       <<"R","E","F","U","N","D">>, <<"R","E","V","E","R","S","A","L">>, <<"C","L","E","A","R","I","N","G">>,
       <<"N","O">>, <<"N","U","M">> >>

\* transaction_words of extract_entity, step 5
transaction_words_last ==
    << <<"D","E","P","O","S","I","T">>, <<"W","I","T","H","D","R","A","W","A","L">>, <<"P","A","Y","M","E","N","T">>,
       <<"T","R","A","N","S","F","E","R">>, <<"C","R","E","D","I","T">>, <<"D","E","B","I","T">>,
       <<"B","A","L","A","N","C","E">>, <<"C","H","A","R","G","E","S">>, <<"F","E","E">>,
       <<"T","A","X">>, <<"E","M","I">>, <<"B","I","L","L">>,
       <<"S","A","L","A","R","Y">>, <<"I","N","T","E","R","E","S","T">>, <<"D","I","V","I","D","E","N","D">>,
       <<"R","E","F","U","N","D">>, <<"R","E","V","E","R","S","A","L">>, <<"C","L","E","A","R","I","N","G">>,
       <<"N","O">>, <<"N","U","M">>, <<"B","Y">>,
       <<"T","O">>, <<"F","R","O","M">>, <<"F","O","R">>,
       <<"A","T">>, <<"O","N">> >>

\* Literals one of which every pattern of interest_patterns and of the nine
\* pattern groups of extract_entity needs in the description to match.
pattern_group_keywords ==
    << <<"U","P","I">>, <<"@">>, <<"P","A","Y","T","M">>, <<"G","P","A","Y">>,
       <<"P","H","O","N","E","P","E">>, <<"R","T","G","S">>, <<"N","E","F","T">>, <<"I","M","P","S">>,
       <<"T","R","A","N","S","F","E","R">>, <<"P","A","I","D">>, <<"R","E","C","E","I","V","E","D">>, <<"T","R","F">>,
       <<"P","A","Y","M","E","N","T">>, <<"C","H","E","Q","U","E">>, <<"C","H","Q">>, <<"C","A","S","H">>,
       <<"B","I","L","L">>, <<"E","M","I">>, <<"L","O","A","N">>, <<"I","N","S","U","R","A","N","C","E">>,
       <<"S","A","L","A","R","Y">>, <<"I","N","T","E","R","E","S","T">>, <<"D","I","V","I","D","E","N","D">> >>

(* ------------------------------------------------------------------ *)
(* EntityNormalizer: pure functions                                    *)
(* ------------------------------------------------------------------ *)
\* A description on which neither the interest patterns nor any of the
\* nine pattern groups can match (steps 1 and 2 of extract_entity yield
\* no entity): it contains none of the literals those patterns start from.
KeywordFree(description) ==
    \A k \in 1..Len(pattern_group_keywords) :
        ~Contains(Upper(description), pattern_group_keywords[k])

AliasOf(name, hits) ==
    IF hits = {} THEN name ELSE merchant_aliases[MinOf(hits)][2]

\* if name in self.merchant_aliases: name = self.merchant_aliases[name]
ApplyAlias(name) ==
    AliasOf(name, {i \in 1..Len(merchant_aliases) : merchant_aliases[i][1] = name})

\* for suffix in suffixes: name = re.sub(r'\bsuffix\b', '', name).strip()
\* (nothing is left to remove from an empty name)
RECURSIVE StripSuffixes(_, _)
StripSuffixes(name, suffixes) ==
    IF Len(name) = 0 \/ Len(suffixes) = 0 THEN name
    ELSE StripSuffixes(Strip(ReSubWord(name, suffixes[1], Deleted)), Tail(suffixes))

DropPrefix(name, prefixes, hits) ==
    IF hits = {} THEN name
    ELSE LStrip(Drop(name, Len(prefixes[MinOf(hits)]) + 1))

\* re.sub(r'^(?:P1|P2|...)\s*', '', name): the first alternative that
\* matches at the start is removed, with the whitespace after it
StripPrefix(name, prefixes) ==
    DropPrefix(name, prefixes, {i \in 1..Len(prefixes) : MatchAt(name, 1, prefixes[i])})

\* re.sub(r'[0-9#*]', ' ', name)
ReplaceDigitsHashStar(s) ==
    SubSeq([i \in 1..Len(s) |->
              IF IsDigit(s[i]) \/ s[i] = "#" \/ s[i] = "*" THEN " " ELSE s[i]],
           1, Len(s))

\* re.sub(r'[^\w\s]', ' ', name)
ReplacePunctuation(s) ==
    SubSeq([i \in 1..Len(s) |->
              IF ~IsWordChar(s[i]) /\ ~IsSpace(s[i]) THEN " " ELSE s[i]],
           1, Len(s))

\* EntityNormalizer._normalize_name
normalize_name(name) ==
    IF name = <<>> THEN <<>>
    ELSE CollapseSpaces(
           StripPrefix(
             StripSuffixes(
               ReplacePunctuation(ReplaceDigitsHashStar(ApplyAlias(Strip(Upper(name))))),
               suffixes_to_remove),
             normalize_prefixes))

IsLetterOrSpace(c) ==
    IsLetter(c) \/ IsSpace(c)

\* last position of the maximal run of whitespace starting at j
\* (j - 1 when s[j] is not whitespace)
SpaceRunEnd(s, j) ==
    FirstOr({k \in j..Len(s) : ~IsSpace(s[k])}, Len(s) + 1) - 1

\* last position of the maximal run of [A-Za-z\s] starting at j
NameRunEnd(s, j) ==
    FirstOr({k \in j..Len(s) : ~IsLetterOrSpace(s[k])}, Len(s) + 1) - 1

\* j when ([A-Z][A-Za-z\s]{2,}) matches at position j (IGNORECASE), else 0
GroupStartAt(s, j) ==
    IF j <= Len(s) /\ IsLetter(s[j]) /\ NameRunEnd(s, j + 1) >= j + 2
    THEN j ELSE 0

\* position of the capture group of  P\s+([A-Z][A-Za-z\s]{2,})  (IGNORECASE)
\* when the pattern matches with P at position i, else 0
PrepGroupStart(s, i, p) ==
    IF MatchAt(s, i, p) /\ SpaceRunEnd(s, i + Len(p)) >= i + Len(p)
    THEN GroupStartAt(s, SpaceRunEnd(s, i + Len(p)) + 1)
    ELSE 0

GroupAt(s, j) ==
    SubSeq(s, j, NameRunEnd(s, j + 1))

FirstGroup(s, p, hits) ==
    IF hits = {} THEN None ELSE GroupAt(s, PrepGroupStart(s, MinOf(hits), p))

\* re.search(P\s+([A-Z][A-Za-z\s]{2,}), s, re.IGNORECASE).group(1), or None
PrepSearch(s, p) ==
    FirstGroup(s, p, {i \in 1..Len(s) : PrepGroupStart(s, i, p) # 0})

\* match.group(1).upper().strip(), whitespace collapsed, prefix removed
CleanGroup(g, prefixes) ==
    IF g = None THEN None
    ELSE StripPrefix(CollapseSpaces(Strip(Upper(g))), prefixes)

\* candidate of one preposition pattern after cleaning, or None
AdvancedCandidate(s, p, prefixes) ==
    CleanGroup(PrepSearch(Upper(s), p), prefixes)

\* ' '.join(meaningful[:3]).upper(), or None without a meaningful word
WordsParty(words) ==
    IF words # <<>> THEN Upper(Join(Take(words, 3))) ELSE None

\* the meaningful words left after removing the transaction words
MeaningfulWords(s, transaction_words) ==
    Meaningful(Split(Strip(RemoveWords(s, transaction_words))))

\* the first candidate of at least two characters, else the meaningful words
FirstUsable(cands, usable, narration) ==
    IF usable # {} THEN cands[MinOf(usable)]
    ELSE WordsParty(MeaningfulWords(narration, transaction_words_advanced))

UsableOf(cands, narration) ==
    FirstUsable(cands,
                {k \in 1..Len(cands) : cands[k] # None /\ Len(cands[k]) >= 2},
                narration)

\* EntityNormalizer._extract_party_advanced
extract_party_advanced(narration) ==
    UsableOf([k \in 1..Len(advanced_patterns) |->
                AdvancedCandidate(narration, advanced_patterns[k], advanced_prefixes)],
             narration)

(* ------------------------------------------------------------------ *)
(* EntityNormalizer: the entity table                                  *)
(* self.entities is a dict; a dict keeps insertion order, which the    *)
(* auto-merge pass iterates, so the table is a sequence of rows.       *)
(* ------------------------------------------------------------------ *)
Keys(ents) ==
    {ents[i].name : i \in 1..Len(ents)}

IndexOf(ents, key) ==
    CHOOSE i \in 1..Len(ents) : ents[i].name = key

Entity(ents, key) ==
    ents[IndexOf(ents, key)]

Abs(x) ==
    IF x < 0 THEN -x ELSE x

NewEntity(normalized, original, entity_type) ==
    [name              |-> normalized,
     original_names    |-> {original},
     entity_type       |-> entity_type,
     transaction_count |-> 0,
     total_credit      |-> 0,
     total_debit       |-> 0]

\* if normalized not in self.entities: self.entities[normalized] = {...}
WithEntity(ents, normalized, original, entity_type) ==
    IF normalized \in Keys(ents) THEN ents
    ELSE Append(ents, NewEntity(normalized, original, entity_type))

\* a registration that counts an entity once, however often it is seen
CountedOnce(e, original, amount, is_credit) ==
    [e EXCEPT !.original_names    = e.original_names \cup {original},
              !.transaction_count = 1,
              !.total_credit      = IF is_credit THEN e.total_credit + Abs(amount)
                                    ELSE e.total_credit,
              !.total_debit       = IF is_credit THEN e.total_debit
                                    ELSE e.total_debit + Abs(amount)]

\* the entity after one more registration
Counted(e, original, amount, is_credit) ==
    [e EXCEPT !.original_names    = e.original_names \cup {original},
              !.transaction_count = e.transaction_count + 1,
              !.total_credit      = IF is_credit THEN e.total_credit + Abs(amount)
                                    ELSE e.total_credit,
              !.total_debit       = IF is_credit THEN e.total_debit
                                    ELSE e.total_debit + Abs(amount)]

CountAt(ents, i, original, amount, is_credit) ==
    [ents EXCEPT ![i] = Counted(ents[i], original, amount, is_credit)]

CountUnder(ents, normalized, original, amount, is_credit) ==
    CountAt(ents, IndexOf(ents, normalized), original, amount, is_credit)

\* EntityNormalizer._register_entity (upi_handle is None at every call site)
register_entity(ents, normalized, original, entity_type, amount, is_credit) ==
    CountUnder(WithEntity(ents, normalized, original, entity_type),
               normalized, original, amount, is_credit)

\* nothing registered, None returned
NoEntity(ents) ==
    [entities |-> ents, result |-> None]

\* register under normalized and return it
Registered(ents, normalized, original, amount, is_credit) ==
    [entities |-> register_entity(ents, normalized, original, "General",
                                  amount, is_credit),
     result   |-> normalized]

Step5Register(ents, candidate, amount, is_credit) ==
    IF Len(candidate) >= 2
    THEN Registered(ents, candidate, candidate, amount, is_credit)
    ELSE NoEntity(ents)

Step5Words(ents, words, amount, is_credit) ==
    IF words # <<>>
    THEN Step5Register(ents, normalize_name(Upper(Join(Take(words, 3)))),
                       amount, is_credit)
    ELSE NoEntity(ents)

\* step 5: the meaningful words of the description
Step5(ents, d, amount, is_credit) ==
    Step5Words(ents, MeaningfulWords(d, transaction_words_last), amount, is_credit)

Step4Register(ents, d, entity, normalized, amount, is_credit) ==
    IF Len(normalized) >= 2
    THEN Registered(ents, normalized, entity, amount, is_credit)
    ELSE Step5(ents, d, amount, is_credit)

\* step 4: the advanced extraction
Step4(ents, d, entity, amount, is_credit) ==
    IF entity # None
    THEN Step4Register(ents, d, entity, normalize_name(entity), amount, is_credit)
    ELSE Step5(ents, d, amount, is_credit)

\* EntityNormalizer.extract_entity on a KeywordFree description:
\* steps 3 (no entity from steps 1-2), 4 and 5.
\* Gives the table after the call and the value returned.
extract_entity(ents, description, amount, is_credit) ==
    IF description = <<>> THEN NoEntity(ents)
    ELSE Step4(ents, Strip(Upper(description)),
               extract_party_advanced(Strip(Upper(description))),
               amount, is_credit)

RemoveAt(seq, j) ==
    SubSeq(seq, 1, j - 1) \o SubSeq(seq, j + 1, Len(seq))

\* a merge that loses what entity2_data was debited
AbsorbWithoutDebit(e1, e2) ==
    [e1 EXCEPT !.original_names    = e1.original_names \cup e2.original_names,
               !.transaction_count = e1.transaction_count + e2.transaction_count,
               !.total_credit      = e1.total_credit + e2.total_credit]

\* entity1_data after taking over the names, count and totals of entity2_data
Absorb(e1, e2) ==
    [e1 EXCEPT !.original_names    = e1.original_names \cup e2.original_names,
               !.transaction_count = e1.transaction_count + e2.transaction_count,
               !.total_credit      = e1.total_credit + e2.total_credit,
               !.total_debit       = e1.total_debit + e2.total_debit]

FoldAt(ents, i1, i2) ==
    RemoveAt([ents EXCEPT ![i1] = Absorb(ents[i1], ents[i2])], i2)

MergeNormalized(ents, norm1, norm2) ==
    IF norm1 \notin Keys(ents) \/ norm2 \notin Keys(ents)
    THEN [entities |-> ents, result |-> FALSE, folded |-> <<>>]
    ELSE IF norm1 = norm2
    THEN [entities |-> ents, result |-> TRUE, folded |-> <<>>]
    ELSE [entities |-> FoldAt(ents, IndexOf(ents, norm1), IndexOf(ents, norm2)),
          result   |-> TRUE,
          folded   |-> <<[from |-> norm2, into |-> norm1]>>]

\* EntityNormalizer.merge_entities: the table after the call, the value
\* returned, and (for the registration history) the fold performed, if any
merge_entities(ents, entity1, entity2) ==
    MergeNormalized(ents, normalize_name(entity1), normalize_name(entity2))

(* ------------------------------------------------------------------ *)
(* Similarity (difflib.SequenceMatcher.ratio and the two boosts).      *)
(* A score is a fraction <<numerator, denominator>>.                   *)
(* ------------------------------------------------------------------ *)
RECURSIVE RunLen(_, _, _, _)
RunLen(a, b, i, j) ==
    IF i > Len(a) \/ j > Len(b) THEN 0
    ELSE IF a[i] # b[j] THEN 0
    ELSE 1 + RunLen(a, b, i + 1, j + 1)

\* length of the longest common block
LongestRun(a, b) ==
    MaxOf({RunLen(a, b, i, j) : i \in 1..Len(a), j \in 1..Len(b)})

RECURSIVE MatchCount(_, _)
\* the block of length k at i in a and j in b, and the matches on both sides
MatchAround(a, b, k, i, j) ==
    k + MatchCount(SubSeq(a, 1, i - 1), SubSeq(b, 1, j - 1))
      + MatchCount(Drop(a, i + k), Drop(b, j + k))

\* the longest block starting at i in a: leftmost in b
MatchFrom(a, b, k, i) ==
    MatchAround(a, b, k, i, MinOf({y \in 1..Len(b) : RunLen(a, b, i, y) = k}))

\* the longest block: leftmost in a
MatchLongest(a, b, k) ==
    IF k = 0 THEN 0
    ELSE MatchFrom(a, b, k, MinOf({x \in 1..Len(a) :
                                     \E y \in 1..Len(b) : RunLen(a, b, x, y) = k}))

\* number of matched characters: the longest common block (leftmost in a,
\* then leftmost in b), then the same to its left and to its right
MatchCount(a, b) ==
    IF a = <<>> \/ b = <<>> THEN 0
    ELSE MatchLongest(a, b, LongestRun(a, b))

FracLess(p, q) ==
    p[1] * q[2] < q[1] * p[2]

FracMax(p, q) ==
    IF FracLess(p, q) THEN q ELSE p

\* SequenceMatcher(None, a, b).ratio()
Ratio(a, b) ==
    IF Len(a) + Len(b) = 0 THEN <<1, 1>>
    ELSE <<2 * MatchCount(a, b), Len(a) + Len(b)>>

\* EntityNormalizer._calculate_similarity
calculate_similarity(str1, str2) ==
    Ratio(Lower(str1), Lower(str2))

ToSet(seq) ==
    {seq[i] : i \in 1..Len(seq)}

\* min(len, len) / max(len, len)
Overlap(m, n) ==
    IF m < n THEN <<m, n>> ELSE <<n, m>>

\* the boost for substring matches
SubstringBoost(similarity, normalized, existing) ==
    IF Contains(existing, normalized) \/ Contains(normalized, existing)
    THEN FracMax(similarity, Overlap(Len(normalized), Len(existing)))
    ELSE similarity

\* the boost for word overlap
WordBoost(similarity, words1, words2) ==
    IF words1 # {} /\ words2 # {}
    THEN FracMax(similarity, <<Cardinality(words1 \cap words2),
                               Cardinality(words1 \cup words2)>>)
    ELSE similarity

\* the score find_similar_entities gives an existing key
SimilarityScore(normalized, existing) ==
    IF normalized = existing THEN <<1, 1>>
    ELSE WordBoost(SubstringBoost(calculate_similarity(normalized, existing),
                                  normalized, existing),
                   ToSet(Split(normalized)), ToSet(Split(existing)))

\* self.similarity_threshold = 0.75, as a fraction
similarity_threshold ==
    <<3, 4>>

\* threshold * 0.9
AutoMergeThreshold(threshold) ==
    <<threshold[1] * 9, threshold[2] * 10>>

InsertAfter(sorted, c, n) ==
    SubSeq(sorted, 1, n) \o <<c>> \o SubSeq(sorted, n + 1, Len(sorted))

\* c placed behind the candidates whose score is not less than its own
InsertByScore(sorted, c) ==
    InsertAfter(sorted, c,
                Cardinality({i \in 1..Len(sorted) : ~FracLess(sorted[i].score, c.score)}))

\* list.sort(key=score, reverse=True): stable, by descending score
RECURSIVE SortByScore(_)
SortByScore(cands) ==
    IF cands = <<>> THEN <<>>
    ELSE InsertByScore(SortByScore(SubSeq(cands, 1, Len(cands) - 1)),
                       cands[Len(cands)])

Scored(ents, normalized) ==
    [i \in 1..Len(ents) |->
        [name  |-> ents[i].name,
         score |-> SimilarityScore(normalized, ents[i].name)]]

SimilarTo(ents, normalized, threshold) ==
    IF normalized = <<>> THEN <<>>
    ELSE SortByScore(SelectSeq(Scored(ents, normalized),
                               LAMBDA c : ~FracLess(c.score, threshold)))

\* EntityNormalizer.find_similar_entities: the candidates, best first
find_similar_entities(ents, entity, threshold) ==
    SimilarTo(ents, normalize_name(entity), threshold)

RECURSIVE MergeCandidates(_, _, _)
\* if self.merge_entities(entity, similar_entity): count it
MergeResult(acc, entity, similar, m) ==
    IF m.result
    THEN MergeCandidates([entities  |-> m.entities,
                          processed |-> acc.processed \cup {similar[1].name},
                          merged    |-> acc.merged + 1,
                          folded    |-> acc.folded \o m.folded],
                         entity, Tail(similar))
    ELSE MergeCandidates(acc, entity, Tail(similar))

\* the inner loop of auto_merge_similar_entities over the candidates of one entity
MergeCandidates(acc, entity, similar) ==
    IF similar = <<>> THEN acc
    ELSE IF similar[1].name # entity /\ similar[1].name \notin acc.processed
    THEN MergeResult(acc, entity, similar,
                     merge_entities(acc.entities, entity, similar[1].name))
    ELSE MergeCandidates(acc, entity, Tail(similar))

\* processed.add(entity)
Processed(acc, entity) ==
    [acc EXCEPT !.processed = acc.processed \cup {entity}]

\* the outer loop of auto_merge_similar_entities over list(self.entities.keys())
RECURSIVE AutoMergeLoop(_, _, _)
AutoMergeLoop(acc, keys, threshold) ==
    IF keys = <<>> THEN acc
    ELSE IF keys[1] \in acc.processed
    THEN AutoMergeLoop(acc, Tail(keys), threshold)
    ELSE AutoMergeLoop(
           Processed(MergeCandidates(acc, keys[1],
                                     find_similar_entities(acc.entities, keys[1],
                                                           AutoMergeThreshold(threshold))),
                     keys[1]),
           Tail(keys), threshold)

AutoMerged(done) ==
    [entities |-> done.entities, result |-> done.merged, folded |-> done.folded]

\* EntityNormalizer.auto_merge_similar_entities: the table after the pass,
\* the number of merges returned and the folds performed, in order
auto_merge_similar_entities(ents, threshold) ==
    AutoMerged(AutoMergeLoop([entities |-> ents, processed |-> {}, merged |-> 0,
                              folded |-> <<>>],
                             [i \in 1..Len(ents) |-> ents[i].name], threshold))

(* ------------------------------------------------------------------ *)
(* EntityNormalizer.entity_relations and link_party_relation           *)
(* ------------------------------------------------------------------ *)
\* the value the defaultdict makes for a party it has no entry for
NewRelation(party) ==
    [party |-> party, sent_to |-> {}, received_from |-> {}, shared_refs |-> {}]

RelationKeys(rels) ==
    {rels[i].party : i \in 1..Len(rels)}

\* self.entity_relations[party]: the entry is made when it is missing
Touched(rels, party) ==
    IF party \in RelationKeys(rels) THEN rels ELSE Append(rels, NewRelation(party))

\* self.entity_relations[party]['sent_to'].add(member)
AddSentTo(rels, party, member) ==
    [i \in 1..Len(Touched(rels, party)) |->
        IF Touched(rels, party)[i].party = party
        THEN [Touched(rels, party)[i] EXCEPT !.sent_to = @ \cup {member}]
        ELSE Touched(rels, party)[i]]

\* self.entity_relations[party]['received_from'].add(member)
AddReceivedFrom(rels, party, member) ==
    [i \in 1..Len(Touched(rels, party)) |->
        IF Touched(rels, party)[i].party = party
        THEN [Touched(rels, party)[i] EXCEPT !.received_from = @ \cup {member}]
        ELSE Touched(rels, party)[i]]

\* the two branches of link_party_relation on the normalized names
LinkNormalized(rels, from_norm, to_norm, is_credit) ==
    IF from_norm = <<>> \/ to_norm = <<>> THEN rels
    ELSE IF is_credit
    THEN AddSentTo(AddReceivedFrom(rels, to_norm, from_norm), from_norm, to_norm)
    ELSE AddReceivedFrom(AddSentTo(rels, from_norm, to_norm), to_norm, to_norm)

\* EntityNormalizer.link_party_relation (amount is not used)
link_party_relation(rels, from_party, to_party, amount, is_credit) ==
    LinkNormalized(rels, normalize_name(from_party), normalize_name(to_party), is_credit)

(* ------------------------------------------------------------------ *)
(* Party detection of the extractors (ExcelProcessor, PDFProcessor)    *)
(* and the fallback of main.py, on narrations on which neither a       *)
(* merchant pattern nor a pattern group matches                        *)
(* ------------------------------------------------------------------ *)

\* the words of merchant_patterns (ExcelProcessor; PDFProcessor has a subset)
merchant_words ==
    << <<"U","B","E","R">>, <<"O","L","A">>, <<"S","W","I","G","G","Y">>, <<"Z","O","M","A","T","O">>,
       <<"A","M","A","Z","O","N">>, <<"F","L","I","P","K","A","R","T">>, <<"M","Y","N","T","R","A">>, <<"O","Y","O">>,
       <<"I","R","C","T","C">>, <<"M","A","K","E","M","Y","T","R","I","P">>, <<"R","E","D","B","U","S">>, <<"P","A","Y","T","M">>,
       <<"P","H","O","N","E","P","E">>, <<"G","P","A","Y">>, <<"B","H","I","M">>, <<"G","O","O","G","L","E">>,
       <<"N","E","T","F","L","I","X">>, <<"S","P","O","T","I","F","Y">>, <<"P","R","I","M","E">>, <<"H","O","T","S","T","A","R">>,
       <<"B","O","O","K","M","Y","S","H","O","W">>, <<"D","O","M","I","N","O","S">>, <<"P","I","Z","Z","A","H","U","T">>, <<"K","F","C">>,
       <<"M","C","D","O","N","A","L","D","S">>, <<"S","B","L","I","N","K">>, <<"Z","E","P","T","O">>, <<"D","U","N","Z","O">>,
       <<"S","N","A","P","D","E","A","L">>, <<"A","J","I","O">>, <<"N","Y","K","A","A">>, <<"P","U","R","P","L","L","E">> >>

excel_business_suffixes ==
    << <<"T","R","A","D","E","R","S">>, <<"T","R","D","G">>, <<"T","R","D">>,
       <<"A","G","E","N","C","I","E","S">>, <<"A","G","Y">>, <<"E","N","T","E","R","P","R","I","S","E","S">>,
       <<"E","N","T","P">>, <<"S","E","R","V","I","C","E","S">>, <<"S","R","V">>,
       <<"S","O","L","U","T","I","O","N","S">>, <<"S","O","L","N">>, <<"P","V","T">>,
       <<"L","T","D">>, <<"L","I","M","I","T","E","D">>, <<"C","O","R","P">>,
       <<"C","O","R","P","O","R","A","T","I","O","N">>, <<"I","N","C">>, <<"C","O","M","P","A","N","Y">>,
       <<"C","O">>, <<"G","R","O","U","P">>, <<"A","S","S","O","C","I","A","T","E","S">>,
       <<"B","A","N","K">>, <<"B","A","N","K","I","N","G">>, <<"H","O","L","D","I","N","G","S">>,
       <<"F","I","N","T","E","C","H">>, <<"P","A","Y","M","E","N","T","S">>, <<"I","N","D","U","S","T","R","I","E","S">>,
       <<"C","O","N","S","T","R","U","C","T","I","O","N","S">>, <<"D","E","V","E","L","O","P","E","R","S">>, <<"R","E","A","L","T","Y">>,
       <<"E","S","T","A","T","E","S">>, <<"S","T","O","R","E","S">>, <<"R","E","T","A","I","L">> >>

pdf_business_suffixes ==
    << <<"T","R","A","D","E","R","S">>, <<"T","R","D","G">>, <<"T","R","D">>,
       <<"A","G","E","N","C","I","E","S">>, <<"A","G","Y">>, <<"E","N","T","E","R","P","R","I","S","E","S">>,
       <<"E","N","T","P">>, <<"S","E","R","V","I","C","E","S">>, <<"S","R","V">>,
       <<"S","O","L","U","T","I","O","N","S">>, <<"S","O","L","N">>, <<"P","V","T">>,
       <<"L","T","D">>, <<"L","I","M","I","T","E","D">>, <<"C","O","R","P">>,
       <<"C","O","R","P","O","R","A","T","I","O","N">>, <<"I","N","C">>, <<"C","O","M","P","A","N","Y">>,
       <<"C","O">>, <<"G","R","O","U","P">>, <<"A","S","S","O","C","I","A","T","E","S">> >>

main_suffixes ==
    << <<"T","R","A","D","E","R","S">>, <<"T","R","D","G">>, <<"A","G","E","N","C","I","E","S">>,
       <<"S","E","R","V","I","C","E","S">>, <<"P","V","T">>, <<"L","T","D">>,
       <<"L","I","M","I","T","E","D">>, <<"C","O","R","P">>, <<"I","N","C">>,
       <<"C","O","M","P","A","N","Y">>, <<"H","O","L","D","I","N","G","S">>, <<"I","N","D","U","S","T","R","I","E","S">> >>

party_prefixes ==
    << <<"T","O">>, <<"F","R","O","M">>, <<"F","O","R">>, <<"V","I","A">>,
       <<"B","Y">>, <<"R","E","F">>, <<"R","E","F","N","O">>, <<"N","O">>,
       <<"N","E","W">>, <<"A","C">>, <<"A","C","C">>, <<"A","C","C","O","U","N","T">>,
       <<"T","R","A","N","S","F","E","R">>, <<"T","R","F">> >>

excel_to_patterns ==
    << <<"T","O">>, <<"F","O","R">>, <<"O","N">>, <<"A","T">> >>

excel_candidate_prefixes ==
    << <<"T","O">>, <<"F","R","O","M">>, <<"F","O","R">>, <<"A","T">>,
       <<"O","N">>, <<"B","Y">>, <<"R","E","F">>, <<"R","E","F","N","O">>,
       <<"N","O">>, <<"N","E","W">>, <<"A","C">>, <<"A","C","C">>,
       <<"A","C","C","O","U","N","T">> >>

pdf_patterns ==
    << <<"T","O">>, <<"F","O","R">>, <<"F","R","O","M">>, <<"A","T">> >>

pdf_candidate_prefixes ==
    << <<"T","O">>, <<"F","R","O","M">>, <<"F","O","R">>, <<"A","T">>,
       <<"O","N">>, <<"B","Y">>, <<"R","E","F">>, <<"R","E","F","N","O">>,
       <<"N","O">>, <<"N","E","W">>, <<"A","C">>, <<"A","C","C">> >>

to_from_patterns ==
    << <<"T","O">>, <<"F","O","R">>, <<"F","R","O","M">>, <<"A","T">> >>

main_candidate_prefixes ==
    << <<"T","O">>, <<"F","R","O","M">>, <<"F","O","R">>, <<"A","T">>,
       <<"O","N">>, <<"B","Y">>, <<"R","E","F">>, <<"N","O">>,
       <<"N","E","W">>, <<"A","C">>, <<"A","C","C">> >>

processor_transaction_words ==
    << <<"D","E","P","O","S","I","T">>, <<"W","I","T","H","D","R","A","W","A","L">>, <<"P","A","Y","M","E","N","T">>,
       <<"T","R","A","N","S","F","E","R">>, <<"C","R","E","D","I","T">>, <<"D","E","B","I","T">>,
       <<"B","A","L","A","N","C","E">>, <<"C","H","A","R","G","E","S">>, <<"F","E","E">>,
       <<"T","A","X">>, <<"E","M","I">>, <<"B","I","L","L">>,
       <<"S","A","L","A","R","Y">>, <<"I","N","T","E","R","E","S","T">>, <<"D","I","V","I","D","E","N","D">>,
       <<"R","E","F","U","N","D">>, <<"R","E","V","E","R","S","A","L">>, <<"C","L","E","A","R","I","N","G">> >>

main_transaction_words ==
    << <<"D","E","P","O","S","I","T">>, <<"W","I","T","H","D","R","A","W","A","L">>, <<"P","A","Y","M","E","N","T">>,
       <<"T","R","A","N","S","F","E","R">>, <<"C","R","E","D","I","T">>, <<"D","E","B","I","T">>,
       <<"B","A","L","A","N","C","E">>, <<"C","H","A","R","G","E","S">>, <<"F","E","E">>,
       <<"T","A","X">>, <<"E","M","I">>, <<"B","I","L","L">>,
       <<"S","A","L","A","R","Y">>, <<"I","N","T","E","R","E","S","T">>, <<"D","I","V","I","D","E","N","D">>,
       <<"R","E","F","U","N","D">>, <<"R","E","V","E","R","S","A","L">>, <<"C","L","E","A","R","I","N","G">>,
       <<"N","O">>, <<"N","U","M">>, <<"B","Y">>,
       <<"T","O">>, <<"F","R","O","M">>, <<"F","O","R">>,
       <<"A","T">>, <<"O","N">> >>

replaced_words ==
    << <<"D","E","P","O","S","I","T">>, <<"P","A","Y","M","E","N","T">>, <<"C","A","S","H">>, <<"U","T","R">> >>

\* the names main.py does not take for a party
party_blacklist ==
    { <<"D","E","P","O","S","I","T">>, <<"C","A","S","H">>, <<"W","I","T","H","D","R","A","W","A","L">>, <<"T","R","A","N","S","F","E","R">>, <<"U","N","K","N","O","W","N">>, <<>> }

UNKNOWN ==
    <<"U","N","K","N","O","W","N">>

\* a narration on which step 1 (merchant patterns) and step 2 (pattern
\* groups) of _extract_party_name, and the pattern groups of main.py, find
\* nothing: it contains none of the literals those patterns start from
PatternFree(narration) ==
    /\ KeywordFree(narration)
    /\ \A k \in 1..Len(merchant_words) :
          ~Contains(Upper(narration), merchant_words[k])

\* for suffix in suffixes: name = re.sub(rf'\b{suffix}\b', '', name)
RECURSIVE RemoveSuffixes(_, _)
RemoveSuffixes(name, suffixes) ==
    IF Len(name) = 0 \/ Len(suffixes) = 0 THEN name
    ELSE RemoveSuffixes(ReSubWord(name, suffixes[1], Deleted), Tail(suffixes))

\* first position of the run of digits that contains position i
DigitRunStart(s, i) ==
    MaxOf({k \in 1..i : ~IsDigit(s[k])} \cup {0}) + 1

\* last position of the run of digits that contains position i
DigitRunEnd(s, i) ==
    FirstOr({k \in i..Len(s) : ~IsDigit(s[k])}, Len(s) + 1) - 1

\* \b[\d]{10,}\b matches the run of digits from a to b
LongNumber(s, a, b) ==
    b - a + 1 >= 10 /\ ~WordAt(s, a - 1) /\ ~WordAt(s, b + 1)

\* re.sub(r'\b[\d]{10,}\b', '', name)
DeleteLongNumbers(s) ==
    Compact([i \in 1..Len(s) |->
               IF IsDigit(s[i]) /\ LongNumber(s, DigitRunStart(s, i), DigitRunEnd(s, i))
               THEN Deleted ELSE s[i]])

\* the name when it has at least two characters, else "UNKNOWN"
OrUnknown(result) ==
    IF Len(result) >= 2 THEN result ELSE UNKNOWN

\* ExcelProcessor._normalize_party_name and PDFProcessor._normalize_party_name,
\* which differ in their business_suffixes
normalize_party_name(name, suffixes) ==
    IF name = <<>> THEN <<>>
    ELSE OrUnknown(
           CollapseSpaces(
             StripPrefix(
               ReplacePunctuation(
                 DeleteLongNumbers(RemoveSuffixes(Strip(Upper(name)), suffixes))),
               party_prefixes)))

\* the party of the first three meaningful words, or None without one
PartyOfWords(words, suffixes) ==
    IF words # <<>>
    THEN normalize_party_name(Upper(Join(Take(words, 3))), suffixes)
    ELSE None

\* the party of the first candidate of at least two characters, else of the
\* meaningful words
FirstParty(cands, usable, narration, suffixes) ==
    IF usable # {}
    THEN normalize_party_name(cands[MinOf(usable)], suffixes)
    ELSE PartyOfWords(MeaningfulWords(Upper(narration), processor_transaction_words),
                      suffixes)

PartyOf(cands, narration, suffixes) ==
    FirstParty(cands,
               {k \in 1..Len(cands) : cands[k] # None /\ Len(cands[k]) >= 2},
               narration, suffixes)

\* ExcelProcessor._extract_party_advanced and PDFProcessor._extract_party_advanced,
\* which differ in their patterns, candidate prefixes and business_suffixes
processor_extract_party_advanced(narration, patterns, prefixes, suffixes) ==
    PartyOf([k \in 1..Len(patterns) |->
               AdvancedCandidate(narration, patterns[k], prefixes)],
            narration, suffixes)

excel_extract_party_advanced(narration) ==
    processor_extract_party_advanced(narration, excel_to_patterns,
                                     excel_candidate_prefixes, excel_business_suffixes)

\* PDFProcessor._extract_party_name on a PatternFree narration
pdf_extract_party_name(narration) ==
    IF Len(narration) < 2 THEN None
    ELSE processor_extract_party_advanced(Strip(narration), pdf_patterns,
                                          pdf_candidate_prefixes, pdf_business_suffixes)

\* cache_key = narration_clean.upper()[:100]
CacheKeyLen ==
    100

CacheKey(narration) ==
    Take(Upper(Strip(narration)), CacheKeyLen)

\* self.party_cache = {}
EmptyCache ==
    [k \in {} |-> <<>>]

\* if party: self.party_cache[cache_key] = party
Cached(cache, key, party) ==
    IF party # None /\ party # <<>>
    THEN [k \in DOMAIN cache \cup {key} |-> IF k = key THEN party ELSE cache[k]]
    ELSE cache

Computed(cache, key, party) ==
    [party |-> party, cache |-> Cached(cache, key, party)]

\* ExcelProcessor._extract_party_name on a PatternFree narration:
\* the party returned and the cache after the call
excel_extract_party_name(cache, narration) ==
    IF Len(narration) < 2 THEN [party |-> None, cache |-> cache]
    ELSE IF CacheKey(narration) \in DOMAIN cache
    THEN [party |-> cache[CacheKey(narration)], cache |-> cache]
    ELSE Computed(cache, CacheKey(narration),
                  excel_extract_party_advanced(Strip(narration)))

\* candidate of one pattern of main.py: upper, strip, prefix removed, collapsed
MainCandidate(g) ==
    IF g = None THEN None
    ELSE CollapseSpaces(StripPrefix(Strip(Upper(g)), main_candidate_prefixes))

AtLeastTwo(party) ==
    IF Len(party) >= 2 THEN party ELSE None

\* the last resort of _extract_party_from_narration
LastResortParty(words) ==
    IF words # <<>>
    THEN AtLeastTwo(CollapseSpaces(ReplacePunctuation(Upper(Join(Take(words, 3))))))
    ELSE None

LastResort(narration) ==
    LastResortParty(MeaningfulWords(narration, main_transaction_words))

\* after the normalisation of a candidate: returned when it has two
\* characters, the last resort when nothing is left of it, else None
NormalizedParty(party, narration) ==
    IF Len(party) >= 2 THEN party
    ELSE IF party = <<>> THEN LastResort(narration)
    ELSE None

FallbackParty(cands, usable, narration) ==
    IF usable # {}
    THEN NormalizedParty(
           Strip(CollapseSpaces(
             DeleteLongNumbers(
               ReplacePunctuation(RemoveSuffixes(cands[MinOf(usable)], main_suffixes))))),
           narration)
    ELSE LastResort(narration)

FallbackOf(cands, narration) ==
    FallbackParty(cands,
                  {k \in 1..Len(cands) : cands[k] # None /\ Len(cands[k]) >= 2},
                  narration)

FallbackFrom(narration) ==
    FallbackOf([k \in 1..Len(to_from_patterns) |->
                  MainCandidate(PrepSearch(narration, to_from_patterns[k]))],
               narration)

\* main._extract_party_from_narration on a PatternFree narration
main_extract_party_from_narration(narration) ==
    IF Len(narration) < 2 THEN None ELSE FallbackFrom(Strip(Upper(narration)))

\* str.replace(w, ''): every occurrence of the literal w removed
\* (no two occurrences of a word of replaced_words overlap)
ReplaceLiteral(s, w) ==
    ReplaceMatches(s, {i \in 1..Len(s) : MatchAt(s, i, w)}, Len(w), Deleted)

RECURSIVE ReplaceLiterals(_, _)
ReplaceLiterals(s, words) ==
    IF Len(s) = 0 \/ Len(words) = 0 THEN s
    ELSE ReplaceLiterals(ReplaceLiteral(s, words[1]), Tail(words))

\* the last resort of the analyze handlers: the first three meaningful words
\* of the description without DEPOSIT, PAYMENT, CASH and UTR
HandlerLastResort(description) ==
    WordsParty(Meaningful(Split(Strip(ReplaceLiterals(description, replaced_words)))))

(* ------------------------------------------------------------------ *)
(* Dates: datetime.strptime, strftime and the day count                *)
(* ------------------------------------------------------------------ *)

DigitChars ==
    <<"0","1","2","3","4","5","6","7","8","9">>

DigitValue(c) ==
    (CHOOSE i \in 1..10 : DigitChars[i] = c) - 1

\* int(s) of a string of digits
RECURSIVE ToInt(_)
ToInt(s) ==
    IF Len(s) = 0 THEN 0
    ELSE 10 * ToInt(SubSeq(s, 1, Len(s) - 1)) + DigitValue(s[Len(s)])

AllDigits(s) ==
    \A i \in 1..Len(s) : IsDigit(s[i])

\* the positions of the separator characters seps in s
SepPositions(s, seps) ==
    {i \in 1..Len(s) : s[i] \in seps}

\* the k-th field of s between the separators at the positions of cuts
FieldAt(s, cuts, k) ==
    SubSeq(s,
           (IF k = 1 THEN 0 ELSE NthOf(cuts, k - 1)) + 1,
           (IF k = Cardinality(cuts) + 1 THEN Len(s) + 1 ELSE NthOf(cuts, k)) - 1)

FieldsAt(s, cuts) ==
    [k \in 1..(Cardinality(cuts) + 1) |-> FieldAt(s, cuts, k)]

\* re.split(r'[seps]', s) and str.split(sep)
Fields(s, seps) ==
    FieldsAt(s, SepPositions(s, seps))

\* the month names of %b, matched without regard to case
MonthNames ==
    << <<"j","a","n">>, <<"f","e","b">>, <<"m","a","r">>, <<"a","p","r">>,
       <<"m","a","y">>, <<"j","u","n">>, <<"j","u","l">>, <<"a","u","g">>,
       <<"s","e","p">>, <<"o","c","t">>, <<"n","o","v">>, <<"d","e","c">> >>

\* the value a directive of strptime reads from a field, or -1 when the
\* field does not match the directive
DirectiveValue(directive, field) ==
    IF directive = "b"
    THEN IF \E k \in 1..12 : MonthNames[k] = Lower(field)
         THEN CHOOSE k \in 1..12 : MonthNames[k] = Lower(field)
         ELSE -1
    ELSE IF ~AllDigits(field) THEN -1
    ELSE IF directive = "d"
    THEN IF Len(field) \in {1, 2} /\ ToInt(field) \in 1..31 THEN ToInt(field) ELSE -1
    ELSE IF directive = "m"
    THEN IF Len(field) \in {1, 2} /\ ToInt(field) \in 1..12 THEN ToInt(field) ELSE -1
    ELSE IF directive = "Y"
    THEN IF Len(field) = 4 /\ ToInt(field) >= 1 THEN ToInt(field) ELSE -1
    ELSE IF Len(field) # 2 THEN -1
    ELSE IF ToInt(field) < 69 THEN 2000 + ToInt(field)
    ELSE 1900 + ToInt(field)

IsLeap(year) ==
    year % 4 = 0 /\ (year % 100 # 0 \/ year % 400 = 0)

MonthLengths ==
    <<31, 28, 31, 30, 31, 30, 31, 31, 30, 31, 30, 31>>

DaysInMonth(year, month) ==
    IF month = 2 /\ IsLeap(year) THEN 29 ELSE MonthLengths[month]

RECURSIVE DaysBeforeMonth(_, _)
DaysBeforeMonth(year, month) ==
    IF month = 1 THEN 0
    ELSE DaysBeforeMonth(year, month - 1) + DaysInMonth(year, month - 1)

\* date.toordinal(): the days since the start of year 1
Ordinal(year, month, day) ==
    365 * (year - 1) + ((year - 1) \div 4) - ((year - 1) \div 100)
      + ((year - 1) \div 400) + DaysBeforeMonth(year, month) + day

\* no date: strptime raised ValueError
NoDate ==
    [ok |-> FALSE, year |-> 0, month |-> 0, day |-> 0]

\* the date of three directive values, when they are values and the day
\* exists in the month
DateOf(year, month, day) ==
    IF year < 0 \/ month < 0 \/ day < 0 THEN NoDate
    ELSE IF day > DaysInMonth(year, month) THEN NoDate
    ELSE [ok |-> TRUE, year |-> year, month |-> month, day |-> day]

\* the field that a directive of fmt reads, by the place of the directive
Slot(fmt, directives) ==
    CHOOSE k \in 1..3 : fmt.order[k] \in directives

StrptimeFields(fields, fmt) ==
    IF Len(fields) # 3 THEN NoDate
    ELSE DateOf(DirectiveValue(fmt.order[Slot(fmt, {"Y", "y"})],
                               fields[Slot(fmt, {"Y", "y"})]),
                DirectiveValue(fmt.order[Slot(fmt, {"m", "b"})],
                               fields[Slot(fmt, {"m", "b"})]),
                DirectiveValue("d", fields[Slot(fmt, {"d"})]))

\* datetime.strptime(s, fmt) for a format of three directives around one
\* separator: the whole string has to match
Strptime(s, fmt) ==
    StrptimeFields(Fields(s, {fmt.sep}), fmt)

\* a number as n digits, with leading zeros
RECURSIVE Padded(_, _)
Padded(value, n) ==
    IF n = 0 THEN <<>>
    ELSE Padded(value \div 10, n - 1) \o <<DigitChars[(value % 10) + 1]>>

\* date.strftime('%d/%m/%Y')
StrftimeDMY(date) ==
    Padded(date.day, 2) \o <<"/">> \o Padded(date.month, 2) \o <<"/">>
      \o Padded(date.year, 4)

\* the first format of formats that parses s, or NoDate
RECURSIVE FirstParse(_, _)
FirstParse(s, formats) ==
    IF Len(formats) = 0 THEN NoDate
    ELSE IF Strptime(s, formats[1]).ok THEN Strptime(s, formats[1])
    ELSE FirstParse(s, Tail(formats))

\* ExcelProcessor.date_formats =
\* ['%d-%b-%Y', '%d-%b-%y', '%d/%m/%Y', '%d-%m-%Y', '%Y-%m-%d']
ExcelFormats ==
    << [sep |-> "-", order |-> <<"d", "b", "Y">>],
       [sep |-> "-", order |-> <<"d", "b", "y">>],
       [sep |-> "/", order |-> <<"d", "m", "Y">>],
       [sep |-> "-", order |-> <<"d", "m", "Y">>],
       [sep |-> "-", order |-> <<"Y", "m", "d">>] >>

\* the date of a cell that parsed, or the text of the cell
ExcelDateOf(date_str, parsed) ==
    IF parsed.ok THEN StrftimeDMY(parsed) ELSE date_str

\* the date _extract_from_dataframe gives a row: the first format that
\* parses the text of the cell, written as %d/%m/%Y, else the text itself
excel_date(date_val) ==
    ExcelDateOf(Strip(date_val), FirstParse(Strip(date_val), ExcelFormats))

\* PDFProcessor.date_patterns: the lengths of the runs of digits, and the
\* separator between them
DatePatterns ==
    << [runs |-> <<2, 2, 4>>, sep |-> "/"],
       [runs |-> <<2, 2, 4>>, sep |-> "-"],
       [runs |-> <<4, 2, 2>>, sep |-> "/"],
       [runs |-> <<2, 2, 4>>, sep |-> "."] >>

\* the ten characters of s from position i match the pattern
PatternAt(s, i, pattern) ==
    /\ i + 9 <= Len(s)
    /\ \A k \in 0..9 :
          IF k \in {pattern.runs[1], pattern.runs[1] + pattern.runs[2] + 1}
          THEN s[i + k] = pattern.sep
          ELSE IsDigit(s[i + k])

\* re.search(pattern, s): the leftmost match, or <<>>
PatternSearch(s, pattern) ==
    IF \E i \in 1..Len(s) : PatternAt(s, i, pattern)
    THEN SubSeq(s, MinOf({i \in 1..Len(s) : PatternAt(s, i, pattern)}),
                MinOf({i \in 1..Len(s) : PatternAt(s, i, pattern)}) + 9)
    ELSE <<>>

\* str.zfill(2)
Zfill2(s) ==
    IF Len(s) = 0 THEN <<"0", "0">>
    ELSE IF Len(s) = 1 THEN <<"0">> \o s
    ELSE s

\* f"{day.zfill(2)}/{month.zfill(2)}/{year}"
DayMonthYear(day, month, year) ==
    Zfill2(day) \o <<"/">> \o Zfill2(month) \o <<"/">> \o year

\* day, month, year = parts; if len(year) == 4 and int(year) > 31:
\* year, month, day = parts
Reordered(parts) ==
    IF Len(parts[3]) = 4 /\ ToInt(parts[3]) > 31
    THEN DayMonthYear(parts[3], parts[2], parts[1])
    ELSE DayMonthYear(parts[1], parts[2], parts[3])

\* the loop over the patterns: the first that matches decides
RECURSIVE ParseWith(_, _)
ParseWith(date_str, patterns) ==
    IF Len(patterns) = 0 THEN None
    ELSE IF PatternSearch(date_str, patterns[1]) # <<>>
    THEN Reordered(Fields(PatternSearch(date_str, patterns[1]), {"/", "-", "."}))
    ELSE ParseWith(date_str, Tail(patterns))

\* PDFProcessor._parse_date
pdf_parse_date(date_str) ==
    IF date_str = <<>> THEN None ELSE ParseWith(Strip(date_str), DatePatterns)

(* ------------------------------------------------------------------ *)
(* FundFlowChainBuilder                                                *)
(* ------------------------------------------------------------------ *)
\* A Transaction of the builder is named by its place in
\* fund_flow_builder.transactions: the builder tells the objects apart by
\* id().  Amounts are whole, so round() leaves them as they are, and a
\* confidence is kept in hundredths.

AMOUNT_TOLERANCE ==
    2

DATE_TOLERANCE_DAYS ==
    1

\* formats = ['%d/%m/%Y', '%Y-%m-%d', '%d-%m-%Y', '%m/%d/%Y']
FlowFormats ==
    << [sep |-> "/", order |-> <<"d", "m", "Y">>],
       [sep |-> "-", order |-> <<"Y", "m", "d">>],
       [sep |-> "-", order |-> <<"d", "m", "Y">>],
       [sep |-> "/", order |-> <<"m", "d", "Y">>] >>

\* FundFlowChainBuilder._parse_date
flow_parse_date(date_str) ==
    IF date_str = <<>> THEN NoDate ELSE FirstParse(date_str, FlowFormats)

\* abs((d1 - d2).days)
DaysApart(d1, d2) ==
    Abs(Ordinal(d1.year, d1.month, d1.day) - Ordinal(d2.year, d2.month, d2.day))

\* if d1 and d2: return delta <= max_days; return True
Proximate(d1, d2, max_days) ==
    IF d1.ok /\ d2.ok THEN DaysApart(d1, d2) <= max_days ELSE TRUE

\* FundFlowChainBuilder._is_date_proximate
is_date_proximate(date1, date2, max_days) ==
    Proximate(flow_parse_date(date1), flow_parse_date(date2), max_days)

Unknown ==
    <<"U","n","k","n","o","w","n">>

\* txn.party or "Unknown"
PartyOrUnknown(txn) ==
    IF txn.party = None \/ txn.party = <<>> THEN Unknown ELSE txn.party

\* the Transaction add_transactions makes of a dictionary
FlowTransaction(txn_data, source_file) ==
    [date        |-> txn_data.date,
     description |-> txn_data.description,
     amount      |-> txn_data.amount,
     credit      |-> txn_data.credit,
     debit       |-> txn_data.debit,
     is_transfer |-> txn_data.is_transfer \/ txn_data.is_upi,
     party       |-> txn_data.party,
     source_file |-> source_file]

\* FundFlowChainBuilder.add_transactions
FlowTxns(txns, source_file) ==
    [i \in 1..Len(txns) |-> FlowTransaction(txns[i], source_file)]

\* [t for t in self.transactions if t.credit > 0], by place
CreditsOf(txns) ==
    SelectSeq([i \in 1..Len(txns) |-> i], LAMBDA i : txns[i].credit > 0)

\* [t for t in self.transactions if t.debit > 0], by place
DebitsOf(txns) ==
    SelectSeq([i \in 1..Len(txns) |-> i], LAMBDA i : txns[i].debit > 0)

\* round(abs(txn.amount))
AmountKey(amount) ==
    Abs(amount)

\* _group_by_amount(...)[key], empty when the key is missing
GroupOf(txns, ids, key) ==
    SelectSeq(ids, LAMBDA i : AmountKey(txns[i].amount) = key)

\* [amount - 1, amount, amount + 1, amount - 2, amount + 2]
AmountKeys(amount) ==
    <<amount - 1, amount, amount + 1, amount - 2, amount + 2>>

\* the transactions of ids under the five keys, in the order of the loops
Candidates(txns, ids, keys) ==
    GroupOf(txns, ids, keys[1]) \o GroupOf(txns, ids, keys[2])
      \o GroupOf(txns, ids, keys[3]) \o GroupOf(txns, ids, keys[4])
      \o GroupOf(txns, ids, keys[5])

\* matches[:5]
MaxMatches ==
    5

FirstMatches(matches) ==
    SubSeq(matches, 1, IF Len(matches) < MaxMatches THEN Len(matches) ELSE MaxMatches)

\* the test of the inner loop of _find_matching_credits: the pair is new,
\* the dates are proximate and the parties differ
MatchesDebit(txns, debit, credit, visited_pairs) ==
    /\ <<credit, debit>> \notin visited_pairs
    /\ is_date_proximate(txns[debit].date, txns[credit].date, DATE_TOLERANCE_DAYS)
    /\ Upper(PartyOrUnknown(txns[credit])) # Upper(PartyOrUnknown(txns[debit]))

\* FundFlowChainBuilder._find_matching_credits
find_matching_credits(txns, debit, visited_pairs) ==
    FirstMatches(
        SelectSeq(Candidates(txns, CreditsOf(txns),
                             AmountKeys(AmountKey(txns[debit].amount))),
                  LAMBDA credit : MatchesDebit(txns, debit, credit, visited_pairs)))

\* the test of the inner loop of _find_matching_debits
MatchesCredit(txns, credit, debit, visited_pairs) ==
    /\ <<credit, debit>> \notin visited_pairs
    /\ is_date_proximate(txns[credit].date, txns[debit].date, DATE_TOLERANCE_DAYS)
    /\ Upper(PartyOrUnknown(txns[debit])) # Upper(PartyOrUnknown(txns[credit]))

\* FundFlowChainBuilder._find_matching_debits
find_matching_debits(txns, credit, visited_pairs) ==
    FirstMatches(
        SelectSeq(Candidates(txns, DebitsOf(txns),
                             AmountKeys(AmountKey(txns[credit].amount))),
                  LAMBDA debit : MatchesCredit(txns, credit, debit, visited_pairs)))

\* the part of the score that the amounts give
AmountScore(amount_diff) ==
    IF amount_diff <= 1 THEN 30
    ELSE IF amount_diff <= AMOUNT_TOLERANCE THEN 20
    ELSE -10

\* a score of the dates that takes the next day for the same day
DateScoreWithin(date1, date2) ==
    IF is_date_proximate(date1, date2, 1) THEN 10 ELSE 0

\* the part of the score that the dates give
DateScore(date1, date2) ==
    IF is_date_proximate(date1, date2, 0) THEN 10
    ELSE IF is_date_proximate(date1, date2, 1) THEN 5
    ELSE 0

\* min(1.0, max(0.0, score))
Clamped(score) ==
    IF score > 100 THEN 100 ELSE IF score < 0 THEN 0 ELSE score

\* FundFlowChainBuilder._calculate_confidence, in hundredths
calculate_confidence(txn1, txn2) ==
    Clamped(50 + AmountScore(Abs(Abs(txn1.amount) - Abs(txn2.amount)))
               + DateScore(txn1.date, txn2.date)
               + (IF txn1.is_transfer /\ txn2.is_transfer THEN 10 ELSE 0))

\* cross_file of _build_single_chain and _build_reverse_chain
CrossFile(debit, credit) ==
    IF debit.source_file # <<>> /\ credit.source_file # <<>>
       /\ debit.source_file # credit.source_file
    THEN 1 ELSE 0

Arrow ==
    <<" ", "-", ">", " ">>

\* the FundFlowChain of a credit and a debit; total is the amount the pass
\* takes for the chain
Chain(txns, credit, debit, chain_id, total) ==
    [chain_id        |-> chain_id,
     flow_path       |-> PartyOrUnknown(txns[credit]) \o Arrow
                           \o PartyOrUnknown(txns[debit]),
     flow_path_list  |-> <<PartyOrUnknown(txns[credit]), PartyOrUnknown(txns[debit])>>,
     total_amount    |-> total,
     confidence      |-> calculate_confidence(txns[debit], txns[credit]),
     chain_depth     |-> 2,
     cross_pdf_links |-> CrossFile(txns[debit], txns[credit]),
     transactions    |-> <<credit, debit>>]

\* FundFlowChainBuilder._build_single_chain
build_single_chain(txns, debit, credit, chain_id) ==
    Chain(txns, credit, debit, chain_id, Abs(txns[debit].amount))

\* FundFlowChainBuilder._build_reverse_chain
build_reverse_chain(txns, credit, debit, chain_id) ==
    Chain(txns, credit, debit, chain_id, Abs(txns[credit].amount))

\* a pass that forgets the pairs it has linked
LinkedUnvisited(acc, chain) ==
    [chains |-> Append(acc.chains, chain), visited_pairs |-> acc.visited_pairs]

\* visited_pairs.add(pair); self.chains.append(chain); chain_id += 1
Linked(acc, chain) ==
    [chains        |-> Append(acc.chains, chain),
     visited_pairs |-> acc.visited_pairs \cup {chain.transactions}]

\* for credit in matching_credits: ...
RECURSIVE LinkCredits(_, _, _, _)
LinkCredits(txns, acc, debit, matching_credits) ==
    IF Len(matching_credits) = 0 \/ Len(acc.chains) < 0 THEN acc
    ELSE LinkCredits(txns,
                     Linked(acc, build_single_chain(txns, debit, matching_credits[1],
                                                    Len(acc.chains))),
                     debit, Tail(matching_credits))

\* for debit in debits: ...
RECURSIVE DebitPass(_, _, _)
DebitPass(txns, acc, debits) ==
    IF Len(debits) = 0 \/ Len(acc.chains) < 0 THEN acc
    ELSE DebitPass(txns,
                   LinkCredits(txns, acc, debits[1],
                               find_matching_credits(txns, debits[1], acc.visited_pairs)),
                   Tail(debits))

\* for debit in matching_debits: ...
RECURSIVE LinkDebits(_, _, _, _)
LinkDebits(txns, acc, credit, matching_debits) ==
    IF Len(matching_debits) = 0 \/ Len(acc.chains) < 0 THEN acc
    ELSE LinkDebits(txns,
                    Linked(acc, build_reverse_chain(txns, credit, matching_debits[1],
                                                    Len(acc.chains))),
                    credit, Tail(matching_debits))

\* for credit in credits: ...
RECURSIVE CreditPass(_, _, _)
CreditPass(txns, acc, credits) ==
    IF Len(credits) = 0 \/ Len(acc.chains) < 0 THEN acc
    ELSE CreditPass(txns,
                    LinkDebits(txns, acc, credits[1],
                               find_matching_debits(txns, credits[1], acc.visited_pairs)),
                    Tail(credits))

\* FundFlowChainBuilder.build_chains: the chains of the debit pass, then
\* those of the credit pass
build_chains(txns) ==
    CreditPass(txns,
               DebitPass(txns, [chains |-> <<>>, visited_pairs |-> {}], DebitsOf(txns)),
               CreditsOf(txns)).chains

RECURSIVE SumOf(_, _)
SumOf(seq, field) ==
    IF Len(seq) = 0 THEN 0 ELSE seq[1][field] + SumOf(Tail(seq), field)

\* FundFlowChainBuilder.get_chain_summary
get_chain_summary(built) ==
    [total_chains     |-> Len(built),
     total_amount     |-> SumOf(built, "total_amount"),
     max_chain_depth  |-> IF Len(built) = 0 THEN 0 ELSE 2,
     cross_file_links |-> SumOf(built, "cross_pdf_links")]

(* ------------------------------------------------------------------ *)
(* TransactionCategorizer                                              *)
(* ------------------------------------------------------------------ *)
\* A pattern of the categorizer is a list of literals joined by .* ; it is
\* kept as the list of its literals.  Scores are kept in thousandths.

\* TransactionCategorizer._build_category_patterns, in insertion order
category_patterns ==
    << [name |-> "Income",
         patterns |-> << <<<<"s","a","l","a","r","y">>>>,
                       <<<<"p","a","y","r","o","l","l">>>>,
                       <<<<"w","a","g","e","s">>>>,
                       <<<<"i","n","c","o","m","e">>>>,
                       <<<<"c","r","e","d","i","t">>, <<"s","a","l","a","r","y">>>>,
                       <<<<"e","m","p","l","o","y","e","r">>>>,
                       <<<<"p","a","y">>, <<"c","r","e","d","i","t">>>>,
                       <<<<"s","a","l","a","r","y">>, <<"c","r","e","d","i","t">>>>,
                       <<<<"s","a","l","a","r","y">>, <<"t","r","a","n","s","f","e","r">>>> >>],
       [name |-> "Reward/Cashback",
         patterns |-> << <<<<"r","e","w","a","r","d">>>>,
                       <<<<"c","a","s","h","b","a","c","k">>>>,
                       <<<<"b","o","n","u","s">>>>,
                       <<<<"c","a","s","h">>, <<"b","a","c","k">>>>,
                       <<<<"l","o","y","a","l","t","y">>>>,
                       <<<<"p","o","i","n","t","s">>, <<"c","r","e","d","i","t">>>>,
                       <<<<"r","e","w","a","r","d">>, <<"p","o","i","n","t","s">>>>,
                       <<<<"c","a","s","h","b","a","c","k">>, <<"c","r","e","d","i","t">>>> >>],
       [name |-> "Refund",
         patterns |-> << <<<<"r","e","f","u","n","d">>>>,
                       <<<<"r","e","v","e","r","s","a","l">>>>,
                       <<<<"c","h","a","r","g","e","b","a","c","k">>>>,
                       <<<<"r","e","t","u","r","n">>, <<"r","e","f","u","n","d">>>>,
                       <<<<"r","e","f","u","n","d">>, <<"c","r","e","d","i","t">>>>,
                       <<<<"p","a","y","m","e","n","t">>, <<"r","e","v","e","r","s","a","l">>>>,
                       <<<<"r","e","f","u","n","d">>, <<"r","e","c","e","i","v","e","d">>>> >>],
       [name |-> "Bill Payment",
         patterns |-> << <<<<"e","l","e","c","t","r","i","c","i","t","y">>>>,
                       <<<<"w","a","t","e","r">>>>,
                       <<<<"g","a","s">>>>,
                       <<<<"u","t","i","l","i","t","y">>>>,
                       <<<<"b","i","l","l">>, <<"p","a","y","m","e","n","t">>>>,
                       <<<<"p","h","o","n","e">>, <<"b","i","l","l">>>>,
                       <<<<"m","o","b","i","l","e">>, <<"b","i","l","l">>>>,
                       <<<<"i","n","t","e","r","n","e","t">>, <<"b","i","l","l">>>>,
                       <<<<"c","a","b","l","e">>, <<"b","i","l","l">>>>,
                       <<<<"e","l","e","c","t","r","i","c","i","t","y">>, <<"b","i","l","l">>>>,
                       <<<<"w","a","t","e","r">>, <<"b","i","l","l">>>>,
                       <<<<"g","a","s">>, <<"b","i","l","l">>>> >>],
       [name |-> "Subscription",
         patterns |-> << <<<<"s","u","b","s","c","r","i","p","t","i","o","n">>>>,
                       <<<<"n","e","t","f","l","i","x">>>>,
                       <<<<"s","p","o","t","i","f","y">>>>,
                       <<<<"p","r","i","m","e">>>>,
                       <<<<"m","o","n","t","h","l","y">>, <<"f","e","e">>>>,
                       <<<<"a","n","n","u","a","l","l","y">>>>,
                       <<<<"r","e","c","u","r","r","i","n","g">>, <<"s","u","b","s","c","r","i","p","t","i","o","n">>>>,
                       <<<<"a","u","t","o">>, <<"d","e","b","i","t">>, <<"s","u","b","s","c","r","i","p","t","i","o","n">>>>,
                       <<<<"a","m","a","z","o","n">>, <<"p","r","i","m","e">>>>,
                       <<<<"y","o","u","t","u","b","e">>, <<"p","r","e","m","i","u","m">>>>,
                       <<<<"s","u","b","s","c","r","i","p","t","i","o","n">>, <<"f","e","e">>>> >>],
       [name |-> "EMI",
         patterns |-> << <<<<"e","m","i">>>>,
                       <<<<"l","o","a","n">>, <<"e","m","i">>>>,
                       <<<<"i","n","s","t","a","l","l","m","e","n","t">>>>,
                       <<<<"l","o","a","n">>, <<"r","e","p","a","y","m","e","n","t">>>>,
                       <<<<"e","q","u","a","t","e","d">>, <<"m","o","n","t","h","l","y">>>>,
                       <<<<"h","o","m","e">>, <<"l","o","a","n">>, <<"e","m","i">>>>,
                       <<<<"c","a","r">>, <<"l","o","a","n">>, <<"e","m","i">>>>,
                       <<<<"p","e","r","s","o","n","a","l">>, <<"l","o","a","n">>, <<"e","m","i">>>>,
                       <<<<"e","m","i">>, <<"p","a","y","m","e","n","t">>>> >>],
       [name |-> "UPI Transfer",
         patterns |-> << <<<<"u","p","i">>>>,
                       <<<<"p","a","y","t","m">>>>,
                       <<<<"p","h","o","n","e","p","e">>>>,
                       <<<<"g","p","a","y">>>>,
                       <<<<"g","o","o","g","l","e">>, <<"p","a","y">>>>,
                       <<<<"b","a","n","k">>, <<"t","r","a","n","s","f","e","r">>, <<"u","p","i">>>>,
                       <<<<"i","n","s","t","a","n","t">>, <<"p","a","y","m","e","n","t">>>>,
                       <<<<"u","p","i">>, <<"t","r","a","n","s","f","e","r">>>>,
                       <<<<"u","p","i">>, <<"p","a","y","m","e","n","t">>>>,
                       <<<<"u","p","i">>, <<"t","o">>>>,
                       <<<<"v","p","a">>, <<"u","p","i">>>> >>],
       [name |-> "Bank Transfer",
         patterns |-> << <<<<"n","e","f","t">>>>,
                       <<<<"r","t","g","s">>>>,
                       <<<<"i","m","p","s">>>>,
                       <<<<"b","a","n","k">>, <<"t","r","a","n","s","f","e","r">>>>,
                       <<<<"f","u","n","d">>, <<"t","r","a","n","s","f","e","r">>>>,
                       <<<<"o","n","l","i","n","e">>, <<"t","r","a","n","s","f","e","r">>>>,
                       <<<<"e","l","e","c","t","r","o","n","i","c">>, <<"t","r","a","n","s","f","e","r">>>>,
                       <<<<"e","f","t">>>>,
                       <<<<"w","i","r","e">>, <<"t","r","a","n","s","f","e","r">>>> >>],
       [name |-> "Cash Flow",
         patterns |-> << <<<<"a","t","m">>>>,
                       <<<<"c","a","s","h">>, <<"w","i","t","h","d","r","a","w","a","l">>>>,
                       <<<<"c","a","s","h">>, <<"a","t","m">>>>,
                       <<<<"w","i","t","h","d","r","a","w","a","l">>, <<"a","t","m">>>>,
                       <<<<"c","a","s","h">>, <<"d","e","p","o","s","i","t">>>>,
                       <<<<"c","a","s","h">>, <<"t","r","a","n","s","a","c","t","i","o","n">>>> >>],
       [name |-> "Loan",
         patterns |-> << <<<<"l","o","a","n">>, <<"d","i","s","b","u","r","s","e","m","e","n","t">>>>,
                       <<<<"p","e","r","s","o","n","a","l">>, <<"l","o","a","n">>>>,
                       <<<<"c","r","e","d","i","t">>, <<"l","i","m","i","t">>>>,
                       <<<<"l","o","a","n">>, <<"c","r","e","d","i","t">>>>,
                       <<<<"a","d","v","a","n","c","e">>, <<"l","o","a","n">>>>,
                       <<<<"l","o","a","n">>, <<"s","a","n","c","t","i","o","n">>>>,
                       <<<<"l","o","a","n">>, <<"d","i","s","b","u","r","s","e","d">>>>,
                       <<<<"p","e","r","s","o","n","a","l">>, <<"l","o","a","n">>, <<"c","r","e","d","i","t">>>> >>],
       [name |-> "Investment",
         patterns |-> << <<<<"i","n","v","e","s","t","m","e","n","t">>>>,
                       <<<<"m","u","t","u","a","l">>, <<"f","u","n","d">>>>,
                       <<<<"s","t","o","c","k","s">>>>,
                       <<<<"s","h","a","r","e","s">>>>,
                       <<<<"f","i","x","e","d">>, <<"d","e","p","o","s","i","t">>>>,
                       <<<<"f","d">>>>,
                       <<<<"r","d">>>>,
                       <<<<"r","e","c","u","r","r","i","n","g">>, <<"d","e","p","o","s","i","t">>>>,
                       <<<<"m","u","t","u","a","l">>, <<"f","u","n","d">>, <<"p","u","r","c","h","a","s","e">>>>,
                       <<<<"s","i","p">>, <<"i","n","v","e","s","t","m","e","n","t">>>>,
                       <<<<"d","e","m","a","t">>, <<"a","c","c","o","u","n","t">>>> >>],
       [name |-> "Expense",
         patterns |-> << <<<<"e","x","p","e","n","s","e">>>>,
                       <<<<"p","u","r","c","h","a","s","e">>>>,
                       <<<<"p","a","y","m","e","n","t">>>>,
                       <<<<"d","e","b","i","t">>>>,
                       <<<<"s","p","e","n","d","i","n","g">>>>,
                       <<<<"m","e","r","c","h","a","n","t">>, <<"p","a","y","m","e","n","t">>>>,
                       <<<<"p","o","s">>, <<"t","r","a","n","s","a","c","t","i","o","n">>>>,
                       <<<<"c","a","r","d">>, <<"p","a","y","m","e","n","t">>>> >>] >>

\* TransactionCategorizer._build_risk_keywords
merchant_risk_keywords ==
    << [score |-> 900,
         keywords |-> << <<<<"c","a","s","i","n","o">>>>,
                       <<<<"g","a","m","b","l","i","n","g">>>>,
                       <<<<"b","e","t","t","i","n","g">>>>,
                       <<<<"c","r","y","p","t","o">>>>,
                       <<<<"b","i","t","c","o","i","n">>>>,
                       <<<<"f","o","r","e","x">>>>,
                       <<<<"t","r","a","d","i","n","g">>, <<"p","l","a","t","f","o","r","m">>>> >>],
       [score |-> 600,
         keywords |-> << <<<<"o","n","l","i","n","e">>, <<"p","a","y","m","e","n","t">>>>,
                       <<<<"m","e","r","c","h","a","n","t">>, <<"u","n","k","n","o","w","n">>>>,
                       <<<<"i","n","t","e","r","n","a","t","i","o","n","a","l">>>>,
                       <<<<"f","o","r","e","i","g","n">>, <<"t","r","a","n","s","a","c","t","i","o","n">>>> >>],
       [score |-> 200,
         keywords |-> << <<<<"s","a","l","a","r","y">>>>,
                       <<<<"u","t","i","l","i","t","y">>>>,
                       <<<<"g","o","v","e","r","n","m","e","n","t">>>>,
                       <<<<"b","a","n","k">>>>,
                       <<<<"e","s","t","a","b","l","i","s","h","e","d">>, <<"m","e","r","c","h","a","n","t">>>> >>] >>

\* the positions from `from` on at which the literal w occurs in s
Occurrences(s, w, from) ==
    {i \in from..(Len(s) + 1) : MatchAt(s, i, w)}

\* re.search(pattern, s) from position `from`: the literals occur in order,
\* each after the end of the one before
RECURSIVE SearchFrom(_, _, _)
SearchFrom(s, literals, from) ==
    IF Len(literals) = 0 THEN TRUE
    ELSE IF Occurrences(s, literals[1], from) = {} THEN FALSE
    ELSE SearchFrom(s, Tail(literals),
                    MinOf(Occurrences(s, literals[1], from)) + Len(literals[1]))

\* re.search(pattern, description, re.IGNORECASE) on the lowered description
Search(literals, description) ==
    SearchFrom(description, literals, 1)

\* len(pattern): the literals and the .* between them
RECURSIVE PatternLength(_)
PatternLength(literals) ==
    IF Len(literals) = 1 THEN Len(literals[1])
    ELSE Len(literals[1]) + 2 + PatternLength(Tail(literals))

\* the loop over the patterns of a category: the first pattern that matches
\* and is longer than the longest so far is taken, and ends the loop
RECURSIVE PatternLoop(_, _, _, _)
PatternLoop(acc, description, name, patterns) ==
    IF Len(patterns) = 0 \/ acc.max_match_length < 0 THEN acc
    ELSE IF /\ Search(patterns[1], description)
            /\ PatternLength(patterns[1]) > acc.max_match_length
    THEN [matched_category |-> name,
          max_match_length |-> PatternLength(patterns[1])]
    ELSE PatternLoop(acc, description, name, Tail(patterns))

\* the loop over the categories
RECURSIVE CategoryLoop(_, _, _)
CategoryLoop(acc, description, categories) ==
    IF Len(categories) = 0 \/ acc.max_match_length < 0 THEN acc
    ELSE CategoryLoop(PatternLoop(acc, description, categories[1].name,
                                  categories[1].patterns),
                      description, Tail(categories))

NoCategory ==
    [matched_category |-> "", max_match_length |-> 0]

\* matched_category and max_match_length after the loops
Matched(description) ==
    CategoryLoop(NoCategory, description, category_patterns)

\* the category of a transaction that no pattern matches
FallbackCategory(credit, debit) ==
    IF credit > 0 THEN "Income" ELSE IF debit > 0 THEN "Expense" ELSE "Unknown"

\* TransactionCategorizer._calculate_merchant_risk
RECURSIVE calculate_merchant_risk(_, _)
calculate_merchant_risk(description, levels) ==
    IF Len(levels) = 0 THEN 500
    ELSE IF \E k \in 1..Len(levels[1].keywords) :
               Search(levels[1].keywords[k], description)
    THEN levels[1].score
    ELSE calculate_merchant_risk(description, Tail(levels))

deviation_category_first(credit, debit, category) ==
    IF category = "Unknown" THEN "Uncategorized"
    ELSE IF (IF credit # 0 THEN credit ELSE debit) > 100000 THEN "High Value"
    ELSE IF (IF credit # 0 THEN credit ELSE debit) < 10 THEN "Micro Transaction"
    ELSE "Normal"

\* TransactionCategorizer._determine_behavioral_deviation
determine_behavioral_deviation(credit, debit, category) ==
    IF (IF credit # 0 THEN credit ELSE debit) > 100000 THEN "High Value"
    ELSE IF (IF credit # 0 THEN credit ELSE debit) < 10 THEN "Micro Transaction"
    ELSE IF category = "Unknown" THEN "Uncategorized"
    ELSE "Normal"

\* min(0.95, 0.5 + (max_match_length / 100)), or 0.3 without a match
NarrationConfidence(matched) ==
    IF matched.matched_category = "" THEN 300
    ELSE IF 500 + 10 * matched.max_match_length > 950 THEN 950
    ELSE 500 + 10 * matched.max_match_length

CategoryOf(matched, credit, debit) ==
    IF matched.matched_category # "" THEN matched.matched_category
    ELSE FallbackCategory(credit, debit)

\* the dictionary categorize_transaction returns
CategoryData(description, matched, credit, debit) ==
    [category                  |-> CategoryOf(matched, credit, debit),
     subcategory               |-> "",
     merchant_risk_score       |-> calculate_merchant_risk(description,
                                                           merchant_risk_keywords),
     narration_risk_confidence |-> NarrationConfidence(matched),
     behavioral_deviation      |->
        determine_behavioral_deviation(credit, debit,
                                       CategoryOf(matched, credit, debit))]

\* TransactionCategorizer.categorize_transaction
categorize_transaction(transaction) ==
    CategoryData(Lower(transaction.description),
                 Matched(Lower(transaction.description)),
                 transaction.credit, transaction.debit)

(* ------------------------------------------------------------------ *)
(* PDFProcessor._validate_and_clean                                    *)
(* ------------------------------------------------------------------ *)
\* A row is a dictionary with date, description, credit, debit and
\* balance; amounts are whole rupees and a missing date or description is
\* the empty string.  The narrations of the rows carry no comma, point,
\* bracket or currency sign, so that a match of the amount pattern is a
\* run of digits and _parse_amount returns its value.

\* prev_balance = None
NoBalance ==
    [known |-> FALSE, value |-> 0]

KnownBalance(value) ==
    [known |-> TRUE, value |-> value]

\* the values of re.findall(self.amount_pattern, desc) under _parse_amount
AmountsIn(desc) ==
    { ToInt(SubSeq(desc, i, DigitRunEnd(desc, i))) :
        i \in {k \in 1..Len(desc) : IsDigit(desc[k]) /\ DigitRunStart(desc, k) = k} }

\* re.search(r'[\d,]+\.?\d{0,2}', description), then _parse_amount;
\* 0 stands for no match
FirstAmount(desc) ==
    IF \E k \in 1..Len(desc) : IsDigit(desc[k])
    THEN ToInt(SubSeq(desc, MinOf({k \in 1..Len(desc) : IsDigit(desc[k])}),
                      DigitRunEnd(desc, MinOf({k \in 1..Len(desc) : IsDigit(desc[k])}))))
    ELSE 0

RECURSIVE InsertSorted(_, _)
InsertSorted(sorted, x) ==
    IF Len(sorted) = 0 THEN <<x>>
    ELSE IF x < sorted[1] THEN <<x>> \o sorted
    ELSE <<sorted[1]>> \o InsertSorted(Tail(sorted), x)

RECURSIVE SortedInts(_)
SortedInts(xs) ==
    IF Len(xs) = 0 THEN <<>>
    ELSE InsertSorted(SortedInts(Tail(xs)), xs[1])

\* first pass: the absolute changes between successive positive balances
RECURSIVE BalanceChanges(_, _, _)
BalanceChanges(acc, prev, transactions) ==
    IF Len(transactions) = 0 \/ Len(acc) < 0 THEN acc
    ELSE BalanceChanges(
           IF transactions[1].balance > 0 /\ prev.known
           THEN Append(acc, Abs(transactions[1].balance - prev.value)) ELSE acc,
           IF transactions[1].balance > 0
           THEN KnownBalance(transactions[1].balance) ELSE prev,
           Tail(transactions))

\* sorted(balance_changes)[len(balance_changes) // 2] if balance_changes else 0
MedianOf(changes) ==
    IF Len(changes) = 0 THEN 0
    ELSE SortedInts(changes)[(Len(changes) \div 2) + 1]

median_change(transactions) ==
    MedianOf(BalanceChanges(<<>>, NoBalance, transactions))

\* txn_key of a row
TxnKey(txn) ==
    <<txn.date, Take(txn.description, 50), txn.credit, txn.debit>>

\* the date of the row before is taken when the row has none
DateRecovered(transactions, idx) ==
    IF transactions[idx].date = <<>> /\ idx > 1 /\ transactions[idx - 1].date # <<>>
    THEN [transactions[idx] EXCEPT !.date = transactions[idx - 1].date]
    ELSE transactions[idx]

\* the amount is inferred from the balance before: it is a debit whatever
\* the direction of the change
BalanceRecoveredAsDebit(txn, prev) ==
    [txn EXCEPT !.credit = 0, !.debit = Abs(txn.balance - prev)]

\* balance_diff = balance - prev_balance: a credit when it is positive,
\* else a debit
BalanceRecovered(txn, prev) ==
    IF txn.balance - prev > 0
    THEN [txn EXCEPT !.credit = Abs(txn.balance - prev), !.debit = 0]
    ELSE [txn EXCEPT !.credit = 0, !.debit = Abs(txn.balance - prev)]

\* recovery of a row whose credit and debit are both 0
ZeroRecovered(txn, prev, median) ==
    IF prev.known /\ txn.balance > 0 THEN BalanceRecovered(txn, prev.value)
    ELSE IF txn.balance > 0 /\ median > 0 THEN [txn EXCEPT !.debit = median]
    ELSE IF FirstAmount(txn.description) > 0
         THEN [txn EXCEPT !.debit = FirstAmount(txn.description)]
    ELSE txn

AmountRecovered(txn, prev, median) ==
    IF txn.credit = 0 /\ txn.debit = 0 THEN ZeroRecovered(txn, prev, median) ELSE txn

\* still zero: the largest amount of the description, when above 100
LargestRecovered(txn) ==
    IF txn.credit = 0 /\ txn.debit = 0 /\ {a \in AmountsIn(txn.description) : a > 0} # {}
         /\ MaxOf({a \in AmountsIn(txn.description) : a > 0}) > 100
    THEN [txn EXCEPT !.debit = MaxOf({a \in AmountsIn(txn.description) : a > 0})]
    ELSE txn

\* balance continuity validation and correction
ContinuityCorrected(txn, prev) ==
    IF prev.known /\ txn.balance > 0
         /\ Abs(prev.value + txn.credit - txn.debit - txn.balance) > 1
         /\ txn.credit = 0 /\ txn.debit = 0
    THEN IF txn.balance - prev.value > 0
         THEN [txn EXCEPT !.credit = txn.balance - prev.value]
         ELSE [txn EXCEPT !.debit = Abs(txn.balance - prev.value)]
    ELSE txn

\* the amounts of a row after every recovery of the second pass
Recovered(txn, prev, median) ==
    ContinuityCorrected(LargestRecovered(AmountRecovered(txn, prev, median)), prev)

\* update previous balance
NextBalance(txn, prev) ==
    IF txn.balance > 0 THEN KnownBalance(txn.balance)
    ELSE IF txn.credit > 0 THEN KnownBalance(prev.value + txn.credit)
    ELSE IF txn.debit > 0 THEN KnownBalance(prev.value - txn.debit)
    ELSE prev

\* the row has reached the end of the iteration with an amount
Kept(loop, idx, txn) ==
    [transactions |-> [loop.transactions EXCEPT ![idx] = txn],
     seen         |-> loop.seen \cup {TxnKey(loop.transactions[idx])},
     prev_balance |-> NextBalance(txn, loop.prev_balance),
     validated    |-> Append(loop.validated, txn)]

\* the row is left out (`continue`) after its key was noted
Skipped(loop, idx, txn) ==
    [loop EXCEPT !.transactions[idx] = txn,
                 !.seen = loop.seen \cup {TxnKey(loop.transactions[idx])}]

AmountStep(loop, idx, txn) ==
    IF txn.credit = 0 /\ txn.debit = 0 THEN Skipped(loop, idx, txn)
    ELSE Kept(loop, idx, txn)

DatedStep(loop, idx, txn, median) ==
    IF txn.date = <<>> \/ txn.description = <<>> THEN Skipped(loop, idx, txn)
    ELSE AmountStep(loop, idx, Recovered(txn, loop.prev_balance, median))

\* one iteration of the second pass
ValidateStep(loop, idx, median) ==
    IF TxnKey(loop.transactions[idx]) \in loop.seen THEN loop
    ELSE DatedStep(loop, idx, DateRecovered(loop.transactions, idx), median)

\* the second pass up to and including row upto
RECURSIVE ValidateLoop(_, _, _)
ValidateLoop(transactions, upto, median) ==
    IF upto = 0
    THEN [transactions |-> transactions, seen |-> {}, prev_balance |-> NoBalance,
          validated |-> <<>>]
    ELSE ValidateStep(ValidateLoop(transactions, upto - 1, median), upto, median)

\* PDFProcessor._validate_and_clean
validate_and_clean(transactions) ==
    ValidateLoop(transactions, Len(transactions), median_change(transactions)).validated

(* ------------------------------------------------------------------ *)
(* Amounts of the extractors: PDFProcessor._parse_amount,              *)
(* _parse_table_row, _parse_text_transactions and get_amount of        *)
(* ExcelProcessor._extract_from_dataframe                              *)
(* ------------------------------------------------------------------ *)
\* Amounts are whole rupees: a cell or a line carries no fraction other
\* than zeros, so that float() of a number is the value of the digits
\* before its point.

\* a character of [\d,]
IsAmountChar(c) ==
    IsDigit(c) \/ c = ","

\* the last character of the run of [\d,] that starts at i
AmountRunEnd(s, i) ==
    FirstOr({k \in i..Len(s) : ~IsAmountChar(s[k])}, Len(s) + 1) - 1

\* \.?\d{0,2} after a run that ends at e: the last character matched
FractionEnd(s, e) ==
    IF e + 1 <= Len(s) /\ s[e + 1] = "."
    THEN IF e + 2 <= Len(s) /\ IsDigit(s[e + 2])
         THEN IF e + 3 <= Len(s) /\ IsDigit(s[e + 3]) THEN e + 3 ELSE e + 2
         ELSE e + 1
    ELSE e

\* the end of the match of amount_pattern r'[\d,]+\.?\d{0,2}' that starts at i
AmountMatchEnd(s, i) ==
    FractionEnd(s, AmountRunEnd(s, i))

\* re.findall(self.amount_pattern, s), from position i on
RECURSIVE FindAmounts(_, _)
FindAmounts(s, i) ==
    IF i > Len(s) THEN <<>>
    ELSE IF IsAmountChar(s[i])
    THEN <<SubSeq(s, i, AmountMatchEnd(s, i))>> \o FindAmounts(s, AmountMatchEnd(s, i) + 1)
    ELSE FindAmounts(s, i + 1)

\* re.sub(self.amount_pattern, '', s), from position i on
RECURSIVE SubAmounts(_, _)
SubAmounts(s, i) ==
    IF i > Len(s) THEN <<>>
    ELSE IF IsAmountChar(s[i]) THEN SubAmounts(s, AmountMatchEnd(s, i) + 1)
    ELSE <<s[i]>> \o SubAmounts(s, i + 1)

\* the literals _parse_amount removes (the rupee sign, which no cell of the
\* model carries, is left out)
amount_formatting ==
    << <<",">>, <<"$">>, <<"R","s",".">>, <<"r","s",".">> >>

\* float(re.search(r'\d+\.?\d{0,2}', s).group()), 0 when nothing matches
NumberIn(s) ==
    IF \E k \in 1..Len(s) : IsDigit(s[k])
    THEN ToInt(SubSeq(s, MinOf({k \in 1..Len(s) : IsDigit(s[k])}),
                      DigitRunEnd(s, MinOf({k \in 1..Len(s) : IsDigit(s[k])}))))
    ELSE 0

\* parentheses or a leading minus make the amount negative
SignedAmount(s) ==
    IF Len(s) >= 2 /\ s[1] = "(" /\ s[Len(s)] = ")"
    THEN 0 - NumberIn(SubSeq(s, 2, Len(s) - 1))
    ELSE IF Len(s) >= 1 /\ s[1] = "-" THEN 0 - NumberIn(Tail(s))
    ELSE NumberIn(s)

\* PDFProcessor._parse_amount
pdf_parse_amount(amount_str) ==
    IF Len(amount_str) = 0 THEN 0
    ELSE SignedAmount(Strip(ReplaceLiterals(amount_str, amount_formatting)))

\* re.sub(r'[^0-9.-]', '', re.sub(r'[Rs$,\s]', '', s))
AmountChars(s) ==
    SelectSeq(SelectSeq(s, LAMBDA c : ~(c \in {"R", "s", "$", ","} \/ IsSpace(c))),
              LAMBDA c : IsDigit(c) \/ c \in {".", "-"})

\* digits with at most one point
IsUnsignedFloat(s) ==
    /\ \A i \in 1..Len(s) : IsDigit(s[i]) \/ s[i] = "."
    /\ Cardinality({i \in 1..Len(s) : s[i] = "."}) <= 1
    /\ \E i \in 1..Len(s) : IsDigit(s[i])

\* the digits before the point
IntegerPart(s) ==
    SubSeq(s, 1, FirstOr({i \in 1..Len(s) : s[i] = "."}, Len(s) + 1) - 1)

\* float(s), 0 when float raises
FloatOr0(s) ==
    IF Len(s) = 0 THEN 0
    ELSE IF s[1] = "-"
    THEN IF IsUnsignedFloat(Tail(s)) THEN 0 - ToInt(IntegerPart(Tail(s))) ELSE 0
    ELSE IF IsUnsignedFloat(s) THEN ToInt(IntegerPart(s)) ELSE 0

\* get_amount of ExcelProcessor._extract_from_dataframe; an empty cell (NaN)
\* is the empty string
get_amount(val) ==
    FloatOr0(AmountChars(Strip(val)))

\* amount = credit if credit > 0 else (-debit if debit > 0 else 0)
SheetAmount(credit, debit) ==
    IF credit > 0 THEN credit ELSE IF debit > 0 THEN 0 - debit ELSE 0

\* the transaction of a row of the sheet
SheetRow(date, description, credit, debit, balance) ==
    [date |-> date, description |-> description, credit |-> credit, debit |-> debit,
     balance |-> balance]

\* the loop of ExcelProcessor._extract_from_dataframe: a row without date,
\* description and amount is skipped
RECURSIVE extract_from_dataframe(_)
extract_from_dataframe(df) ==
    IF Len(df) = 0 THEN <<>>
    ELSE (IF /\ excel_date(df[1].date) = <<>>
             /\ Strip(df[1].description) = <<>>
             /\ SheetAmount(get_amount(df[1].credit), get_amount(df[1].debit)) = 0
          THEN <<>>
          ELSE <<SheetRow(excel_date(df[1].date), Strip(df[1].description),
                          get_amount(df[1].credit), get_amount(df[1].debit),
                          get_amount(df[1].balance))>>)
         \o extract_from_dataframe(Tail(df))

\* the row of a table whose headers name the five columns
TableRow(date, description, credit, debit, balance) ==
    [date |-> date, description |-> description, credit |-> credit, debit |-> debit,
     balance |-> balance]

\* PDFProcessor._parse_table_row: <<>> stands for None, <<txn>> for txn
parse_table_row(row) ==
    IF /\ pdf_parse_date(row.date) \notin {None, <<>>}
       /\ Strip(row.description) # <<>>
    THEN <<TableRow(pdf_parse_date(row.date), Strip(row.description),
                    pdf_parse_amount(row.credit), pdf_parse_amount(row.debit),
                    pdf_parse_amount(row.balance))>>
    ELSE <<>>

\* the loop over the data rows of a table in _extract_with_pdfplumber
RECURSIVE TableRows(_)
TableRows(table) ==
    IF Len(table) = 0 THEN <<>>
    ELSE parse_table_row(table[1]) \o TableRows(Tail(table))

\* [self._parse_amount(a) for a in amounts if self._parse_amount(a) > 0]
RECURSIVE PositiveAmounts(_)
PositiveAmounts(amounts) ==
    IF Len(amounts) = 0 THEN <<>>
    ELSE (IF pdf_parse_amount(amounts[1]) > 0 THEN <<pdf_parse_amount(amounts[1])>>
          ELSE <<>>) \o PositiveAmounts(Tail(amounts))

\* current_txn = None
NoTxn ==
    [started |-> FALSE, date |-> <<>>, description |-> <<>>, credit |-> 0, debit |-> 0,
     balance |-> 0]

\* the transaction a line with a date starts
StartedTxn(date) ==
    [started |-> TRUE, date |-> date, description |-> <<>>, credit |-> 0, debit |-> 0,
     balance |-> 0]

\* the amounts of the line that starts a transaction: the last is the
\* balance, the difference to the first the credit or the debit
WithLineAmounts(txn, amounts) ==
    IF Len(amounts) >= 2
    THEN [txn EXCEPT !.balance = amounts[Len(amounts)],
                     !.debit   = IF amounts[1] > amounts[Len(amounts)]
                                 THEN amounts[1] - amounts[Len(amounts)] ELSE 0,
                     !.credit  = IF amounts[1] < amounts[Len(amounts)]
                                 THEN amounts[Len(amounts)] - amounts[1] ELSE 0]
    ELSE IF Len(amounts) = 1 THEN [txn EXCEPT !.balance = amounts[1]]
    ELSE txn

\* desc_part: the line without the date, without the amounts, stripped
WithLineDescription(txn, desc_part) ==
    IF desc_part # <<>> THEN [txn EXCEPT !.description = desc_part] ELSE txn

\* the position of the leftmost match of date_patterns[0] in line, 0 if none
DateStart(line) ==
    FirstOr({i \in 1..Len(line) : PatternAt(line, i, DatePatterns[1])}, 0)

\* the transaction started by a line with a date at position at
NewTxn(line, at) ==
    WithLineDescription(
        WithLineAmounts(StartedTxn(pdf_parse_date(SubSeq(line, at, at + 9))),
                        PositiveAmounts(FindAmounts(line, 1))),
        Strip(SubAmounts(SubSeq(line, 1, at - 1) \o Drop(line, at + 10), 1)))

\* a later line with amounts: the balance when there is none, else the
\* credit or the debit when there is neither
WithLaterAmounts(txn, amounts) ==
    IF Len(amounts) = 0 THEN txn
    ELSE IF txn.balance = 0 THEN [txn EXCEPT !.balance = amounts[Len(amounts)]]
    ELSE IF txn.credit = 0 /\ txn.debit = 0
    THEN IF amounts[1] > txn.balance
         THEN [txn EXCEPT !.credit = amounts[1] - txn.balance]
         ELSE [txn EXCEPT !.debit = txn.balance - amounts[1]]
    ELSE txn

\* a later line without amounts continues the description
WithMoreDescription(txn, line) ==
    IF txn.description # <<>>
    THEN [txn EXCEPT !.description = txn.description \o <<" ">> \o line]
    ELSE [txn EXCEPT !.description = line]

\* a line without a date, while a transaction is being built
Continued(txn, line) ==
    IF FindAmounts(line, 1) # <<>>
    THEN WithLaterAmounts(txn, PositiveAmounts(FindAmounts(line, 1)))
    ELSE WithMoreDescription(txn, line)

\* the transaction being built is saved when it has a description
Saved(transactions, txn) ==
    IF txn.started /\ txn.description # <<>>
    THEN Append(transactions,
                TableRow(txn.date, txn.description, txn.credit, txn.debit, txn.balance))
    ELSE transactions

\* one line of the text (already stripped, not empty)
TextLine(acc, line) ==
    IF DateStart(line) # 0
    THEN [transactions |-> Saved(acc.transactions, acc.current),
          current      |-> NewTxn(line, DateStart(line))]
    ELSE IF acc.current.started
    THEN [acc EXCEPT !.current = Continued(acc.current, line)]
    ELSE acc

\* the loop over the lines
RECURSIVE TextLines(_, _)
TextLines(acc, lines) ==
    IF Len(lines) = 0 \/ Len(acc.transactions) < 0 THEN acc
    ELSE TextLines(IF Strip(lines[1]) = <<>> THEN acc ELSE TextLine(acc, Strip(lines[1])),
                   Tail(lines))

\* after the loop: add the last transaction
LastSaved(acc) ==
    Saved(acc.transactions, acc.current)

\* PDFProcessor._parse_text_transactions, on the lines of the text
parse_text_transactions(lines) ==
    LastSaved(TextLines([transactions |-> <<>>, current |-> NoTxn], lines))

(* ------------------------------------------------------------------ *)
(* State                                                               *)
(* ------------------------------------------------------------------ *)
VARIABLES
    entities,        \* entity_normalizer.entities, in insertion order
    entity_relations, \* entity_normalizer.entity_relations, in insertion order
    regs,            \* history: the registrations since the last clear(),
                     \* each with the key it was made under and the key of
                     \* the entity that holds it now
    ff_transactions, \* fund_flow_builder.transactions
    party_cache,     \* excel_processor.party_cache
    running,         \* the request whose handler holds the event loop from
                     \* its clear() to its response, or NoTask
    req,             \* per request: its upload, where its handler stands,
                     \* its local variables and its response
    uploads,         \* number of requests received
    party_response,  \* the last answer of GET /api/party/{name}
    chains,          \* fund_flow_builder.chains
    argument,        \* the argument of a call of a function of the services
    returned         \* what that call returned, or NotCalled

\* no function of the services is under call
NotCalled ==
    [called |-> FALSE, value |-> <<>>]

\* the argument of a call, and the value a call returned
Called(value) ==
    [called |-> TRUE, value |-> value]

NoResponse ==
    [status |-> 0, name |-> <<>>, party_name |-> <<>>, listed |-> FALSE]

Requests ==
    {"r1", "r2"}

\* no handler is between its clear() and its response
NoTask ==
    "none"

\* no answer yet
NoAnswer ==
    [status_code |-> 0, body |-> [detail |-> <<>>]]

\* the answer to a raised HTTPException
HttpError(status_code, detail) ==
    [status_code |-> status_code, body |-> [detail |-> detail]]

\* the handler's locals when the request arrives
Received(endpoint, files) ==
    [pc           |-> "read",
     endpoint     |-> endpoint,
     files        |-> files,
     tasks        |-> <<>>,
     completion   |-> <<>>,
     reached      |-> {},
     extracted    |-> <<>>,
     file_details |-> <<>>,
     transactions |-> <<>>,
     found        |-> 0,
     fallback     |-> 0,
     merged       |-> 0,
     response     |-> NoAnswer]

\* a request slot before any request
Idle ==
    [Received("none", <<>>) EXCEPT !.pc = "idle"]

Init ==
    /\ entities = <<>>
    /\ entity_relations = <<>>
    /\ regs = <<>>
    /\ ff_transactions = <<>>
    /\ party_cache = EmptyCache
    /\ running = NoTask
    /\ req = [r \in Requests |-> Idle]
    /\ uploads = 0
    /\ party_response = NoResponse
    /\ chains = <<>>
    /\ argument = NotCalled
    /\ returned = NotCalled

InitLedger ==
    Init

\* EntityNormalizer.clear
clear ==
    <<>>

\* the history after a fold of one entity into another
Reown(history, fold) ==
    [i \in 1..Len(history) |->
        IF history[i].owner = fold.from
        THEN [history[i] EXCEPT !.owner = fold.into]
        ELSE history[i]]

RECURSIVE ReownAll(_, _)
ReownAll(history, folds) ==
    IF folds = <<>> THEN history
    ELSE ReownAll(Reown(history, folds[1]), Tail(folds))

\* the history after a call of extract_entity(description, amount, is_credit)
\* that returned result
Logged(history, result, amount, is_credit) ==
    IF result = None THEN history
    ELSE Append(history, [key |-> result, owner |-> result,
                          amount |-> Abs(amount), is_credit |-> is_credit])

(* ------------------------------------------------------------------ *)
(* The ledger driven directly: any sequence of registrations, merges,  *)
(* auto-merge passes and clears                                        *)
(* ------------------------------------------------------------------ *)
MaxRegs ==
    3

\* descriptions registered: "NEWTON" is stored under TON, "FLIP LTD" under
\* FLIP, RAMA and RAMAN are similar enough for the auto-merge pass, "12 34"
\* has no meaningful word
Descriptions ==
    { <<"N","E","W","T","O","N">>,
      <<"R","A","M","A">>,
      <<"R","A","M","A","N">>,
      <<"F","L","I","P"," ","L","T","D">>,
      <<"1","2"," ","3","4">> }

\* (amount, is_credit) of a credit of 3 and of a debit of 2
Movements ==
    { [amount |-> 3, is_credit |-> TRUE], [amount |-> -2, is_credit |-> FALSE] }

\* names handed to merge_entities: the keys of the table and a name it lacks
MergeNames ==
    Keys(entities) \cup { <<"Z","E","D">> }

\* the table and the history after extract_entity(description, m.amount,
\* m.is_credit)
AfterRegistration(r, m) ==
    /\ entities' = r.entities
    /\ regs' = Logged(regs, r.result, m.amount, m.is_credit)
    /\ UNCHANGED <<entity_relations, ff_transactions, party_cache, running, req, uploads, party_response, chains, argument, returned>>

\* the table and the history after a call that merges
AfterMerge(r) ==
    /\ entities' = r.entities
    /\ regs' = ReownAll(regs, r.folded)
    /\ UNCHANGED <<entity_relations, ff_transactions, party_cache, running, req, uploads, party_response, chains, argument, returned>>

ExtractEntity(description, m) ==
    /\ Len(regs) < MaxRegs
    /\ AfterRegistration(extract_entity(entities, description, m.amount, m.is_credit), m)

MergeEntities(entity1, entity2) ==
    AfterMerge(merge_entities(entities, entity1, entity2))

AutoMerge ==
    AfterMerge(auto_merge_similar_entities(entities, similarity_threshold))

Clear ==
    /\ entities # <<>> \/ entity_relations # <<>>
    /\ entities' = clear
    /\ entity_relations' = clear
    /\ regs' = <<>>
    /\ UNCHANGED <<ff_transactions, party_cache, running, req, uploads, party_response, chains, argument, returned>>

vars ==
    <<entities, entity_relations, regs, ff_transactions, party_cache, running, req, uploads, party_response, chains, argument, returned>>

NextEN ==
    \/ \E d \in Descriptions, m \in Movements : ExtractEntity(d, m)
    \/ \E e1 \in MergeNames, e2 \in MergeNames : MergeEntities(e1, e2)
    \/ AutoMerge
    \/ Clear

SpecEN ==
    InitLedger /\ [][NextEN]_vars

Held(key) ==
    Cardinality({i \in 1..Len(regs) : regs[i].owner = key})

MadeUnder(key) ==
    Cardinality({i \in 1..Len(regs) : regs[i].key = key})

\* C1 (as amended): every entity has non-negative totals, and its
\* transaction_count is the number of registrations since the last clear
\* made under its own key or under the key of an entity since merged into it.
C1_CountsAndTotals ==
    \A i \in 1..Len(entities) :
        /\ entities[i].total_credit >= 0
        /\ entities[i].total_debit >= 0
        /\ entities[i].transaction_count = Held(entities[i].name)

\* an entity that holds a registration made under another entity's key
C1_Witness ==
    \E i \in 1..Len(entities) :
        /\ entities[i].transaction_count >= 2
        /\ entities[i].total_debit > 0
        /\ \E k \in 1..Len(regs) :
              regs[k].owner = entities[i].name /\ regs[k].key # entities[i].name

\* C1 as stated: transaction_count is the number of registrations made
\* under the entity's own key since the last clear
C1_Original ==
    \A i \in 1..Len(entities) :
        /\ entities[i].total_credit >= 0
        /\ entities[i].total_debit >= 0
        /\ entities[i].transaction_count = MadeUnder(entities[i].name)

(* ------------------------------------------------------------------ *)
(* Uploads, extraction and enrichment                                  *)
(* ------------------------------------------------------------------ *)

\* SUPPORTED_EXTENSIONS = ('.xls', '.xlsx', '.pdf')
SUPPORTED_EXTENSIONS ==
    << <<".","x","l","s">>, <<".","x","l","s","x">>, <<".","p","d","f">> >>

\* str.endswith(suffix)
EndsWith(s, suffix) ==
    /\ Len(s) >= Len(suffix)
    /\ SubSeq(s, Len(s) - Len(suffix) + 1, Len(s)) = suffix

\* a check of the file name that looks at the name as it was sent
SupportedAsSent(filename) ==
    \E k \in 1..Len(SUPPORTED_EXTENSIONS) : EndsWith(filename, SUPPORTED_EXTENSIONS[k])

\* file.filename.lower().endswith(SUPPORTED_EXTENSIONS)
Supported(filename) ==
    \E k \in 1..Len(SUPPORTED_EXTENSIONS) :
        EndsWith(Lower(filename), SUPPORTED_EXTENSIONS[k])

\* file.filename.lower().endswith(('.xls', '.xlsx'))
IsExcel(filename) ==
    \/ EndsWith(Lower(filename), SUPPORTED_EXTENSIONS[1])
    \/ EndsWith(Lower(filename), SUPPORTED_EXTENSIONS[2])

\* file.filename.lower().endswith('.pdf')
IsPdf(filename) ==
    EndsWith(Lower(filename), SUPPORTED_EXTENSIONS[3])

\* amount = credit if credit > 0 else (-debit if debit > 0 else 0)
RowAmount(row) ==
    IF row.credit > 0 THEN row.credit
    ELSE IF row.debit > 0 THEN -row.debit
    ELSE 0

\* ['neft', 'imps', 'rtgs', 'transfer', 'trf', 'by transfer']
TransferKeywords ==
    { <<"n","e","f","t">>, <<"i","m","p","s">>, <<"r","t","g","s">>,
      <<"t","r","a","n","s","f","e","r">>, <<"t","r","f">>,
      <<"b","y"," ","t","r","a","n","s","f","e","r">> }

\* ['upi', '@', 'gpay', 'phonepe', 'paytm', 'bhim']
UpiKeywords ==
    { <<"u","p","i">>, <<"@">>, <<"g","p","a","y">>,
      <<"p","h","o","n","e","p","e">>, <<"p","a","y","t","m">>,
      <<"b","h","i","m">> }

\* any(kw in description.lower() for kw in keywords)
AnyKeyword(description, keywords) ==
    \E kw \in keywords : Contains(Lower(description), kw)

\* the transaction _extract_from_dataframe appends for a row
ExcelTxn(row, party) ==
    [date        |-> excel_date(row.date),
     is_transfer |-> AnyKeyword(Strip(row.description), TransferKeywords),
     is_upi      |-> AnyKeyword(Strip(row.description), UpiKeywords),
     description |-> Strip(row.description),
     amount      |-> RowAmount(row),
     credit      |-> row.credit,
     debit       |-> row.debit,
     party       |-> party]

\* the rows of a sheet in order, each party taken through the party cache
RECURSIVE ExtractRows(_, _, _)
RECURSIVE ExtractRow(_, _, _)
ExtractRows(rows, cache, txns) ==
    IF Len(rows) = 0 \/ Len(txns) < 0
    THEN [transactions |-> txns, cache |-> cache]
    ELSE ExtractRow(rows, txns,
                    excel_extract_party_name(cache, Strip(rows[1].description)))

ExtractRow(rows, txns, x) ==
    ExtractRows(Tail(rows), x.cache, Append(txns, ExcelTxn(rows[1], x.party)))

\* ExcelProcessor.extract_transactions: a workbook that cannot be read
\* gives the empty list
excel_extract_transactions(cache, file) ==
    IF file.body = "unreadable" THEN [transactions |-> <<>>, cache |-> cache]
    ELSE ExtractRows(file.rows, cache, <<>>)

\* the transaction PDFProcessor builds for a row: it has no 'amount'
PdfTxn(row) ==
    [date        |-> pdf_parse_date(row.date),
     is_transfer |-> FALSE,
     is_upi      |-> FALSE,
     description |-> row.description,
     amount      |-> 0,
     credit      |-> row.credit,
     debit       |-> row.debit,
     party       |-> pdf_extract_party_name(row.description)]

\* _validate_and_clean keeps the rows that move money (the rows of an upload
\* have dates of their own, no balance and no amount in their narration)
PdfRows(rows) ==
    SelectSeq(rows, LAMBDA row : row.credit # 0 \/ row.debit # 0)

PdfTxns(rows) ==
    [i \in 1..Len(rows) |-> PdfTxn(rows[i])]

NoValidTransactions ==
    "No valid transactions extracted from PDF"

\* PDFProcessor.extract_transactions: raises on a document it cannot read and
\* on one without a transaction
pdf_extract_transactions(file) ==
    IF file.body = "unreadable"
    THEN [raised |-> TRUE, error |-> file.error, transactions |-> <<>>]
    ELSE IF PdfRows(file.rows) = <<>>
    THEN [raised |-> TRUE, error |-> NoValidTransactions, transactions |-> <<>>]
    ELSE [raised |-> FALSE, error |-> "", transactions |-> PdfTxns(PdfRows(file.rows))]

\* party_to_register in ['DEPOSIT', 'CASH', 'WITHDRAWAL', 'TRANSFER', 'UNKNOWN', '']
\* or not party_to_register
Blacklisted(party) ==
    party = None \/ party \in party_blacklist

Bit(b) ==
    IF b THEN 1 ELSE 0

\* the last resort of the handler
WordsChoice(existing, words) ==
    IF words # None THEN [party |-> words, fallback |-> TRUE]
    ELSE [party |-> existing, fallback |-> FALSE]

\* the fallback extraction, then the last resort
FallbackChoice(existing, fallback_party, description) ==
    IF fallback_party # None /\ fallback_party # <<>>
    THEN [party |-> fallback_party, fallback |-> TRUE]
    ELSE WordsChoice(existing, HandlerLastResort(description))

\* party_to_register, and whether it came from a fallback
PartyToRegister(existing, description) ==
    IF Blacklisted(existing)
    THEN FallbackChoice(existing, main_extract_party_from_narration(description),
                        description)
    ELSE [party |-> existing, fallback |-> FALSE]

\* if txn.get('amount', 0) == 0: txn['amount'] = credit - debit
TxnAmount(txn) ==
    IF txn.amount = 0 THEN txn.credit - txn.debit ELSE txn.amount

\* a transaction whose party is not registered
Unregistered(acc, txn, choice, amount) ==
    [acc EXCEPT !.transactions = Append(@, [txn EXCEPT !.amount = amount,
                                                       !.party = choice.party]),
                !.fallback = @ + Bit(choice.fallback)]

\* a transaction whose party is registered: extract_entity on the description,
\* then the transaction takes _normalize_name(party_to_register) when that is
\* a key of the table
RegisteredTxn(acc, txn, choice, amount, r, registered_party) ==
    [entities     |-> r.entities,
     regs         |-> Logged(acc.regs, r.result, amount, txn.credit > 0),
     transactions |-> Append(acc.transactions,
                             [txn EXCEPT !.amount = amount,
                                         !.party =
                                            IF /\ registered_party # <<>>
                                               /\ registered_party \in Keys(r.entities)
                                            THEN registered_party
                                            ELSE choice.party]),
     found        |-> acc.found + 1,
     fallback     |-> acc.fallback + Bit(choice.fallback)]

EnrichWith(acc, txn, choice, amount) ==
    IF Blacklisted(choice.party) THEN Unregistered(acc, txn, choice, amount)
    ELSE RegisteredTxn(acc, txn, choice, amount,
                       extract_entity(acc.entities, txn.description, amount,
                                      txn.credit > 0),
                       normalize_name(choice.party))

\* one pass of the loop over the transactions
EnrichTxn(acc, txn) ==
    EnrichWith(acc, txn, PartyToRegister(txn.party, txn.description), TxnAmount(txn))

\* the loop over the transactions
RECURSIVE EnrichAll(_, _)
EnrichAll(acc, txns) ==
    IF Len(txns) = 0 \/ acc.found < 0 THEN acc
    ELSE EnrichAll(EnrichTxn(acc, txns[1]), Tail(txns))

\* the loop started on a cleared table
Enriched(ents, history, txns) ==
    EnrichAll([entities |-> ents, regs |-> history, transactions |-> <<>>,
               found |-> 0, fallback |-> 0], txns)

\* FundFlowChainBuilder.clear
flow_clear ==
    <<>>

\* a row of get_party_ledger_summary
LedgerRow(e) ==
    [party_name        |-> e.name,
     total_credit      |-> e.total_credit,
     total_debit       |-> e.total_debit,
     net_amount        |-> e.total_credit - e.total_debit,
     transaction_count |-> e.transaction_count,
     entity_type       |-> e.entity_type]

\* summary.sort(key=total_credit + total_debit, reverse=True): stable
InsertRow(sorted, row) ==
    InsertAfter(sorted, row,
                Cardinality({k \in 1..Len(sorted) :
                               sorted[k].total_credit + sorted[k].total_debit
                                 >= row.total_credit + row.total_debit}))

RECURSIVE SortByTotal(_, _)
SortByTotal(sorted, rows) ==
    IF Len(rows) = 0 \/ Len(sorted) < 0 THEN sorted
    ELSE SortByTotal(InsertRow(sorted, rows[1]), Tail(rows))

\* EntityNormalizer.get_party_ledger_summary
get_party_ledger_summary(ents) ==
    SortByTotal(<<>>, [i \in 1..Len(ents) |-> LedgerRow(ents[i])])

(* ------------------------------------------------------------------ *)
(* The enrichment loops when a call inside them raises                 *)
(* ------------------------------------------------------------------ *)
\* No upload was found on which extract_entity, _normalize_name or
\* categorize_transaction raises; the exception is the environment's.
\* A fault names the call of the loop body that raises for a transaction:
\* "extract_entity", "categorize_transaction" or "none".

\* txn.update(category_data)
Categorized(txn, category_data) ==
    [date |-> txn.date, is_transfer |-> txn.is_transfer, is_upi |-> txn.is_upi,
     description |-> txn.description, amount |-> txn.amount, credit |-> txn.credit,
     debit |-> txn.debit, party |-> txn.party,
     categorized |-> TRUE, category |-> category_data.category,
     behavioral_deviation |-> category_data.behavioral_deviation]

\* a transaction that never came to txn.update: it has no category
Uncategorized(txn) ==
    [date |-> txn.date, is_transfer |-> txn.is_transfer, is_upi |-> txn.is_upi,
     description |-> txn.description, amount |-> txn.amount, credit |-> txn.credit,
     debit |-> txn.debit, party |-> txn.party,
     categorized |-> FALSE, category |-> "", behavioral_deviation |-> ""]

\* the loop body ran to its end for the last transaction of acc
WithCategory(acc) ==
    [acc EXCEPT !.transactions[Len(acc.transactions)] =
                    Categorized(@, categorize_transaction(@))]

\* the loop body was left before txn.update for the last transaction of acc
WithoutCategory(acc) ==
    [acc EXCEPT !.transactions[Len(acc.transactions)] = Uncategorized(@)]

\* extract_entity raises: the amount, the fallback party and the counters
\* are written, the table of entities is not
RaisedInRegister(acc, txn, choice, amount) ==
    [acc EXCEPT !.transactions = Append(@, [txn EXCEPT !.amount = amount,
                                                       !.party = choice.party]),
                !.found = @ + 1,
                !.fallback = @ + Bit(choice.fallback)]

\* the fault is met: extract_entity is called only for a usable party
Raises(txn, fault) ==
    \/ fault = "categorize_transaction"
    \/ fault = "extract_entity"
         /\ ~Blacklisted(PartyToRegister(txn.party, txn.description).party)

\* the loop body up to the call that raises
UpToFault(acc, txn, fault) ==
    IF fault = "extract_entity"
    THEN RaisedInRegister(acc, txn, PartyToRegister(txn.party, txn.description),
                          TxnAmount(txn))
    ELSE EnrichTxn(acc, txn)

\* analyze_statement: try: ... except Exception: continue
GuardedBody(acc, txn, fault) ==
    IF Raises(txn, fault) THEN WithoutCategory(UpToFault(acc, txn, fault))
    ELSE WithCategory(EnrichTxn(acc, txn))

RECURSIVE GuardedLoop(_, _, _)
GuardedLoop(acc, txns, faults) ==
    IF Len(txns) = 0 \/ acc.found < 0 THEN acc
    ELSE GuardedLoop(GuardedBody(acc, txns[1], faults[1]), Tail(txns), Tail(faults))

\* analyze_multiple_statements: the loop body stands in no try of its own
RECURSIVE UnguardedLoop(_, _, _)
UnguardedLoop(acc, txns, faults) ==
    IF Len(txns) = 0 \/ acc.found < 0 THEN [raised |-> FALSE, acc |-> acc]
    ELSE IF Raises(txns[1], faults[1])
    THEN [raised |-> TRUE, acc |-> WithoutCategory(UpToFault(acc, txns[1], faults[1]))]
    ELSE UnguardedLoop(WithCategory(EnrichTxn(acc, txns[1])), Tail(txns), Tail(faults))

\* the loop starts on the cleared engines
LoopStart ==
    [entities |-> <<>>, regs |-> <<>>, transactions |-> <<>>, found |-> 0, fallback |-> 0]

InternalServerError ==
    "Internal server error"

\* JSONResponse(content=response_data)
Success(acc) ==
    [status_code |-> 200,
     body |-> [status |-> "success", transactions |-> acc.transactions,
               found |-> acc.found, fallback |-> acc.fallback]]

\* the answer of /api/analyze to transactions extracted from its file
analyze_statement(txns, faults) ==
    Success(GuardedLoop(LoopStart, txns, faults))

\* except Exception as e: raise HTTPException(status_code=500, ...)
MultiAnswer(loop) ==
    IF loop.raised THEN HttpError(500, InternalServerError) ELSE Success(loop.acc)

\* the answer of /api/analyze/multi to the transactions of its files
analyze_multiple_statements(txns, faults) ==
    MultiAnswer(UnguardedLoop(LoopStart, txns, faults))

(* ------------------------------------------------------------------ *)
(* POST /api/analyze                                                   *)
(* ------------------------------------------------------------------ *)

\* the extensions as they appear in the detail of the 400 answer
ExtensionNames ==
    <<".xls", ", ", ".xlsx", ", ", ".pdf">>

\* f"Only {', '.join(SUPPORTED_EXTENSIONS)} files are supported"
UnsupportedDetail ==
    <<"Only ">> \o ExtensionNames \o <<" files are supported">>

EmptyDetail ==
    <<"Empty file">>

NoTransactionsDetail ==
    <<"No transactions found. Please ensure the file contains valid bank statement data.">>

\* f"Failed to process PDF file: {str(e)}"
PdfFailedDetail(error) ==
    <<"Failed to process PDF file: ", error>>

\* the handler ends with an HTTPException
Rejected(q, status_code, detail) ==
    [q EXCEPT !.pc = "done", !.response = HttpError(status_code, detail)]

\* what the extraction step of analyze_statement leaves: the transactions,
\* or the detail of the 400 it raises
ExcelOutcome(x) ==
    [failed |-> FALSE, detail |-> <<>>, transactions |-> x.transactions,
     cache |-> x.cache]

PdfOutcome(cache, p) ==
    IF p.raised
    THEN [failed |-> TRUE, detail |-> PdfFailedDetail(p.error),
          transactions |-> <<>>, cache |-> cache]
    ELSE [failed |-> FALSE, detail |-> <<>>, transactions |-> p.transactions,
          cache |-> cache]

Extraction(cache, file) ==
    IF IsExcel(file.filename)
    THEN ExcelOutcome(excel_extract_transactions(cache, file))
    ELSE PdfOutcome(cache, pdf_extract_transactions(file))

\* the extractor the handler hands the file to
Extractor(filename) ==
    IF IsExcel(filename) THEN "excel" ELSE "pdf"

MaxUploads ==
    2

\* the handler that is between its clear() and its response keeps the event
\* loop: no other handler is resumed before it has answered
Scheduled(r) ==
    running \in {r, NoTask}

\* the request arrives; the handler runs to `await file.read()`
Analyze(r, f) ==
    /\ running = NoTask
    /\ req[r].pc \in {"idle", "done"}
    /\ uploads < MaxUploads
    /\ uploads' = uploads + 1
    /\ req' = [req EXCEPT ![r] =
                 IF Supported(f.filename) THEN Received("single", <<f>>)
                 ELSE Rejected(Received("single", <<f>>), 400, UnsupportedDetail)]
    /\ UNCHANGED <<entity_relations, entities, regs, ff_transactions, party_cache, running, party_response, chains, argument, returned>>

\* a handler whose clear() comes before the checks that answer 400
ExtractedCleared(r, x) ==
    /\ party_cache' = x.cache
    /\ IF x.failed
       THEN /\ req' = [req EXCEPT ![r] =
                         Rejected([req[r] EXCEPT !.reached = {Extractor(req[r].files[1].filename)}],
                                  400, x.detail)]
            /\ UNCHANGED running
       ELSE IF x.transactions = <<>>
       THEN /\ req' = [req EXCEPT ![r] =
                         Rejected([req[r] EXCEPT !.reached = {Extractor(req[r].files[1].filename)}],
                                  400, NoTransactionsDetail)]
            /\ UNCHANGED running
       ELSE /\ req' = [req EXCEPT ![r].pc = "clear",
                                  ![r].reached = {Extractor(req[r].files[1].filename)},
                                  ![r].extracted = x.transactions]
            /\ running' = r
    /\ entities' = clear
    /\ entity_relations' = clear
    /\ regs' = <<>>
    /\ ff_transactions' = flow_clear
    /\ chains' = flow_clear
    /\ UNCHANGED <<uploads, party_response, argument, returned>>

\* after the extraction: a 400, or on to the clear() with the event loop held
Extracted(r, x) ==
    /\ party_cache' = x.cache
    /\ IF x.failed
       THEN /\ req' = [req EXCEPT ![r] =
                         Rejected([req[r] EXCEPT !.reached = {Extractor(req[r].files[1].filename)}],
                                  400, x.detail)]
            /\ UNCHANGED running
       ELSE IF x.transactions = <<>>
       THEN /\ req' = [req EXCEPT ![r] =
                         Rejected([req[r] EXCEPT !.reached = {Extractor(req[r].files[1].filename)}],
                                  400, NoTransactionsDetail)]
            /\ UNCHANGED running
       ELSE /\ req' = [req EXCEPT ![r].pc = "clear",
                                  ![r].reached = {Extractor(req[r].files[1].filename)},
                                  ![r].extracted = x.transactions]
            /\ running' = r
    /\ UNCHANGED <<entity_relations, entities, regs, ff_transactions, uploads, party_response, chains, argument, returned>>

\* file.read() has returned: the empty-file check and the extraction
ReadDone(r) ==
    /\ running = NoTask
    /\ req[r].pc = "read"
    /\ req[r].endpoint = "single"
    /\ IF req[r].files[1].body = "empty"
       THEN /\ req' = [req EXCEPT ![r] = Rejected(req[r], 400, EmptyDetail)]
            /\ UNCHANGED <<entity_relations, entities, regs, ff_transactions, party_cache, running,
                           uploads, party_response, chains, argument, returned>>
       ELSE Extracted(r, Extraction(party_cache, req[r].files[1]))

\* a handler suspended after its clear() would give the event loop away
AfterClearSuspended(r) ==
    NoTask

\* no await follows the clear(): the handler keeps the event loop
AfterClear(r) ==
    r

\* entity_normalizer.clear(); fund_flow_builder.clear()
ClearEngines(r) ==
    /\ running = r
    /\ req[r].pc = "clear"
    /\ entities' = clear
    /\ entity_relations' = clear
    /\ regs' = <<>>
    /\ ff_transactions' = flow_clear
    /\ chains' = flow_clear
    /\ req' = [req EXCEPT ![r].pc = "enrich"]
    /\ running' = AfterClear(r)
    /\ UNCHANGED <<party_cache, uploads, party_response, argument, returned>>

\* source_file of add_transactions: the file name, or "" in the multi handler
SourceFile(q) ==
    IF q.endpoint = "single" THEN q.files[1].filename ELSE <<>>

\* auto_merge_similar_entities after the loop of the multi handler
MergedAfter(q, ents) ==
    IF q.endpoint = "multi"
    THEN auto_merge_similar_entities(ents, similarity_threshold)
    ELSE [entities |-> ents, result |-> 0, folded |-> <<>>]

\* the engines and the locals after the loop, add_transactions and, in the
\* multi handler, the auto-merge pass
EnrichedTo(r, acc, merge) ==
    /\ entities' = merge.entities
    /\ regs' = ReownAll(acc.regs, merge.folded)
    /\ ff_transactions' = ff_transactions \o FlowTxns(acc.transactions, SourceFile(req[r]))
    /\ chains' = build_chains(ff_transactions \o FlowTxns(acc.transactions,
                                                          SourceFile(req[r])))
    /\ req' = [req EXCEPT ![r].pc = "respond",
                          ![r].transactions = acc.transactions,
                          ![r].found = acc.found,
                          ![r].fallback = acc.fallback,
                          ![r].merged = merge.result]
    /\ running' = r
    /\ UNCHANGED <<entity_relations, party_cache, uploads, party_response, argument, returned>>

EnrichedBy(r, acc) ==
    EnrichedTo(r, acc, MergedAfter(req[r], acc.entities))

\* the loop over the transactions, add_transactions, build_chains (and the
\* auto-merge pass of the multi handler)
Enrich(r) ==
    /\ Scheduled(r)
    /\ req[r].pc = "enrich"
    /\ EnrichedBy(r, Enriched(entities, regs, req[r].extracted))

\* response_data of analyze_statement
SinglePayload(q, ents, flow, built) ==
    [status             |-> "success",
     filename           |-> q.files[1].filename,
     total_transactions |-> Len(q.transactions),
     source             |-> IF IsPdf(q.files[1].filename) THEN "single_pdf" ELSE "single_xls",
     found              |-> q.found,
     fallback           |-> q.fallback,
     transactions       |-> q.transactions,
     parties            |-> get_party_ledger_summary(ents),
     total_parties      |-> Len(ents),
     chain_input        |-> flow,
     fund_flow_chains   |-> get_chain_summary(built),
     entity_relations   |-> <<>>]

\* response_data of analyze_multiple_statements
MultiPayload(q, ents, flow, built) ==
    [status               |-> "success",
     files_processed      |-> Len(q.file_details),
     file_details         |-> q.file_details,
     total_transactions   |-> Len(q.transactions),
     source               |-> "multi_file",
     auto_merged_entities |-> q.merged,
     found                |-> q.found,
     fallback             |-> q.fallback,
     transactions         |-> q.transactions,
     parties              |-> get_party_ledger_summary(ents),
     total_parties        |-> Len(ents),
     chain_input          |-> flow,
     fund_flow_chains     |-> get_chain_summary(built),
     entity_relations     |-> <<>>]

Payload(q, ents, flow, built) ==
    IF q.endpoint = "single" THEN SinglePayload(q, ents, flow, built)
    ELSE MultiPayload(q, ents, flow, built)

\* the summaries of the engines and JSONResponse(content=response_data)
Respond(r) ==
    /\ running = r
    /\ req[r].pc = "respond"
    /\ req' = [req EXCEPT ![r].pc = "done",
                          ![r].response = [status_code |-> 200,
                                           body |-> Payload(req[r], entities, ff_transactions,
                                                            chains)]]
    /\ running' = NoTask
    /\ UNCHANGED <<entity_relations, entities, regs, ff_transactions, party_cache, uploads, party_response,
                   chains, argument, returned>>

(* ------------------------------------------------------------------ *)
(* GET /api/party/{party_name}                                         *)
(* ------------------------------------------------------------------ *)

\* the answer for a name whose normalized form is `normalized`
PartyAnswer(party_name, normalized) ==
    [status     |-> IF normalized \in Keys(entities) THEN 200 ELSE 404,
     name       |-> normalized,
     party_name |-> party_name,
     listed     |-> party_name \in Keys(entities)]

\* names looked up: the party names of the ledger and a name it lacks
PartyNames ==
    Keys(entities) \cup { <<"Z","E","D">> }

GetPartyDetails(party_name) ==
    /\ running = NoTask
    /\ party_response' = PartyAnswer(party_name, normalize_name(party_name))
    /\ UNCHANGED <<entity_relations, entities, regs, ff_transactions, party_cache, running, req, uploads,
                   chains, argument, returned>>

(* ------------------------------------------------------------------ *)
(* POST /api/analyze/multi                                             *)
(* ------------------------------------------------------------------ *)

\* no party computed and not yet stored by the extraction thread
NoPending ==
    <<"no pending">>

\* return None, None, {}
NoResult ==
    [transactions |-> <<>>, metadata |-> <<>>]

\* a task of process_file before it has run
NewTask ==
    [pc |-> "start", row |-> 1, pending |-> NoPending, txns |-> <<>>,
     result |-> NoResult]

\* for txn in transactions: txn['_source_file'] = file.filename
Tagged(txns, filename) ==
    [i \in 1..Len(txns) |->
        [date        |-> txns[i].date,
         is_transfer |-> txns[i].is_transfer,
         is_upi      |-> txns[i].is_upi,
         description |-> txns[i].description,
         amount      |-> txns[i].amount,
         credit      |-> txns[i].credit,
         debit       |-> txns[i].debit,
         party       |-> txns[i].party,
         origin      |-> filename]]

\* metadata of process_file
Metadata(file, txns) ==
    [filename          |-> file.filename,
     file_type         |-> IF IsPdf(file.filename) THEN "pdf" ELSE "xls",
     transaction_count |-> Len(txns)]

\* what process_file returns for the transactions of a file
ResultOf(file, txns) ==
    IF txns = <<>> THEN NoResult
    ELSE [transactions |-> Tagged(txns, file.filename),
          metadata     |-> <<Metadata(file, txns)>>]

\* the task ends with result
Finished(q, i, result) ==
    [q EXCEPT !.tasks[i].pc = "done",
              !.tasks[i].result = result,
              !.completion = Append(@, i)]

\* the multi handler's locals when the request arrives: one task per file,
\* the handler waits in gather
ReceivedBatch(files) ==
    [Received("multi", files) EXCEPT !.pc = "gather",
                                     !.tasks = [i \in 1..Len(files) |-> NewTask]]

\* the request arrives; the handler runs to `await asyncio.gather(*tasks)`
AnalyzeMulti(r, fs) ==
    /\ running = NoTask
    /\ req[r].pc \in {"idle", "done"}
    /\ uploads < MaxUploads
    /\ uploads' = uploads + 1
    /\ req' = [req EXCEPT ![r] = ReceivedBatch(fs)]
    /\ UNCHANGED <<entity_relations, entities, regs, ff_transactions, party_cache, running, party_response, chains, argument, returned>>

\* a task runs to `await file.read()`, or ends on an unsupported extension
TaskStart(r, i) ==
    /\ running = NoTask
    /\ req[r].pc = "gather"
    /\ i \in 1..Len(req[r].tasks)
    /\ req[r].tasks[i].pc = "start"
    /\ req' = [req EXCEPT ![r] =
                 IF Supported(req[r].files[i].filename)
                 THEN [req[r] EXCEPT !.tasks[i].pc = "read"]
                 ELSE Finished(req[r], i, NoResult)]
    /\ UNCHANGED <<entity_relations, entities, regs, ff_transactions, party_cache, running, uploads,
                   party_response, chains, argument, returned>>

\* the PDF extractor run by the task itself; an exception ends the task
\* with no result
PdfResult(file, p) ==
    IF p.raised THEN NoResult ELSE ResultOf(file, p.transactions)

\* file.read() has returned: an empty file ends the task, a spreadsheet goes
\* to a thread of the executor, a PDF is extracted by the task
TaskRead(r, i) ==
    /\ running = NoTask
    /\ req[r].pc = "gather"
    /\ i \in 1..Len(req[r].tasks)
    /\ req[r].tasks[i].pc = "read"
    /\ req' = [req EXCEPT ![r] =
                 IF req[r].files[i].body = "empty"
                 THEN Finished(req[r], i, NoResult)
                 ELSE IF IsExcel(req[r].files[i].filename)
                 THEN [req[r] EXCEPT !.tasks[i].pc = "executor",
                                     !.reached = @ \cup {"excel"}]
                 ELSE Finished([req[r] EXCEPT !.reached = @ \cup {"pdf"}], i,
                               PdfResult(req[r].files[i],
                                         pdf_extract_transactions(req[r].files[i])))]
    /\ UNCHANGED <<entity_relations, entities, regs, ff_transactions, party_cache, running, uploads,
                   party_response, chains, argument, returned>>

\* the rows the extraction thread goes through
ThreadRows(file) ==
    IF file.body = "unreadable" THEN <<>> ELSE file.rows

\* the thread has a row whose narration is not a key of the cache: the party
\* is computed and waits to be stored
Missed(q, i, party) ==
    [q EXCEPT !.tasks[i].pending = party]

\* the thread appends the transaction of its row
RowDone(q, i, row, party) ==
    [q EXCEPT !.tasks[i].pending = NoPending,
              !.tasks[i].row = @ + 1,
              !.tasks[i].txns = Append(@, ExcelTxn(row, party))]

\* the thread looks the narration of its row up in the party cache
LookedUp(q, i, row, narration) ==
    IF Len(narration) < 2 THEN RowDone(q, i, row, None)
    ELSE IF CacheKey(narration) \in DOMAIN party_cache
    THEN RowDone(q, i, row, party_cache[CacheKey(narration)])
    ELSE Missed(q, i, excel_extract_party_advanced(Strip(narration)))

\* a thread of the executor, first half of _extract_party_name for a row
ExecutorLookup(r, i) ==
    /\ req[r].pc = "gather"
    /\ i \in 1..Len(req[r].tasks)
    /\ req[r].tasks[i].pc = "executor"
    /\ req[r].tasks[i].pending = NoPending
    /\ req[r].tasks[i].row <= Len(ThreadRows(req[r].files[i]))
    /\ req' = [req EXCEPT ![r] =
                 LookedUp(req[r], i, req[r].files[i].rows[req[r].tasks[i].row],
                          Strip(req[r].files[i].rows[req[r].tasks[i].row].description))]
    /\ UNCHANGED <<entity_relations, entities, regs, ff_transactions, party_cache, running, uploads,
                   party_response, chains, argument, returned>>

\* a thread of the executor, second half: the cache write and the return
ExecutorStore(r, i) ==
    /\ req[r].pc = "gather"
    /\ i \in 1..Len(req[r].tasks)
    /\ req[r].tasks[i].pc = "executor"
    /\ req[r].tasks[i].pending # NoPending
    /\ party_cache' = Cached(party_cache,
                             CacheKey(Strip(req[r].files[i].rows[req[r].tasks[i].row].description)),
                             req[r].tasks[i].pending)
    /\ req' = [req EXCEPT ![r] =
                 RowDone(req[r], i, req[r].files[i].rows[req[r].tasks[i].row],
                         req[r].tasks[i].pending)]
    /\ UNCHANGED <<entity_relations, entities, regs, ff_transactions, running, uploads, party_response, chains, argument, returned>>

\* extract_transactions returns in its thread
ExecutorReturn(r, i) ==
    /\ req[r].pc = "gather"
    /\ i \in 1..Len(req[r].tasks)
    /\ req[r].tasks[i].pc = "executor"
    /\ req[r].tasks[i].pending = NoPending
    /\ req[r].tasks[i].row > Len(ThreadRows(req[r].files[i]))
    /\ req' = [req EXCEPT ![r].tasks[i].pc = "resume"]
    /\ UNCHANGED <<entity_relations, entities, regs, ff_transactions, party_cache, running, uploads,
                   party_response, chains, argument, returned>>

\* the task is resumed with the result of the thread
TaskResume(r, i) ==
    /\ running = NoTask
    /\ req[r].pc = "gather"
    /\ i \in 1..Len(req[r].tasks)
    /\ req[r].tasks[i].pc = "resume"
    /\ req' = [req EXCEPT ![r] =
                 Finished(req[r], i, ResultOf(req[r].files[i], req[r].tasks[i].txns))]
    /\ UNCHANGED <<entity_relations, entities, regs, ff_transactions, party_cache, running, uploads,
                   party_response, chains, argument, returned>>

\* results in the order in which the tasks ended
CompletionOrder(n, completion) ==
    completion

\* asyncio.gather returns the results in the order of its arguments
GatherOrder(n, completion) ==
    [i \in 1..n |-> i]

\* a combination that keeps one of several equal transactions
ExtendDistinct(all_transactions, txns) ==
    all_transactions \o
    SelectSeq(txns, LAMBDA t :
        \A k \in 1..Len(all_transactions) :
            \/ all_transactions[k].description # t.description
            \/ all_transactions[k].credit # t.credit
            \/ all_transactions[k].debit # t.debit)

\* all_transactions.extend(transactions)
Extend(all_transactions, txns) ==
    all_transactions \o txns

\* an entry of file_details for every file, whatever it returned
ContributionAlways(file, result) ==
    <<Metadata(file, result.transactions)>>

\* if transactions and metadata: file_metadata.append(metadata)
Contribution(file, result) ==
    IF result.transactions # <<>> /\ result.metadata # <<>> THEN result.metadata
    ELSE <<>>

\* the loop over the results
RECURSIVE CombineAll(_, _, _)
CombineAll(q, order, acc) ==
    IF Len(order) = 0 \/ Len(acc.transactions) < 0 THEN acc
    ELSE CombineAll(q, Tail(order),
                    [transactions |-> Extend(acc.transactions,
                                             q.tasks[order[1]].result.transactions),
                     file_details |-> acc.file_details \o
                                      Contribution(q.files[order[1]],
                                                   q.tasks[order[1]].result)])

Combined(q) ==
    CombineAll(q, GatherOrder(Len(q.tasks), q.completion),
               [transactions |-> <<>>, file_details |-> <<>>])

NoTransactionsInAnyFile ==
    <<"No transactions found in any file.">>

\* the handler after the results are combined
Gathered(r, all) ==
    IF all.transactions = <<>>
    THEN /\ req' = [req EXCEPT ![r] = Rejected(req[r], 400, NoTransactionsInAnyFile)]
         /\ UNCHANGED running
    ELSE /\ req' = [req EXCEPT ![r].pc = "clear",
                               ![r].extracted = all.transactions,
                               ![r].file_details = all.file_details]
         /\ running' = r

\* gather has returned: the results are combined
GatherDone(r) ==
    /\ running = NoTask
    /\ req[r].pc = "gather"
    /\ \A i \in 1..Len(req[r].tasks) : req[r].tasks[i].pc = "done"
    /\ Gathered(r, Combined(req[r]))
    /\ UNCHANGED <<entity_relations, entities, regs, ff_transactions, party_cache, uploads, party_response, chains, argument, returned>>

(* ------------------------------------------------------------------ *)
(* Uploads                                                             *)
(* ------------------------------------------------------------------ *)
\* An upload is its file name, whether its bytes are empty, unreadable for
\* the extractor or a statement, the rows of the statement (narration,
\* credit, debit, the text of the date) and the text of the error an
\* unreadable PDF raises.
\* The narrations are PatternFree.

\* a workbook of three rows: NEWTON is stored under TON, BANK is left to
\* the fallback of the handler, 12 34 has no party
statement_xlsx ==
    [filename |-> <<"a",".","x","l","s","x">>,
     body     |-> "statement",
     rows     |-> << [date |-> <<"0","5","/","0","1","/","2","0","2","4">>,
                     description |-> <<"N","E","W","T","O","N">>, credit |-> 0, debit |-> 2],
                    [date |-> <<"0","6","-","J","a","n","-","2","0","2","4">>,
                     description |-> <<"B","A","N","K">>, credit |-> 3, debit |-> 0],
                    [date |-> <<"2","0","2","4","-","0","1","-","0","7">>,
                     description |-> <<"1","2"," ","3","4">>, credit |-> 1, debit |-> 0] >>,
     error    |-> ""]

\* a PDF of two rows whose parties the auto-merge pass takes for one
statement_pdf ==
    [filename |-> <<"b",".","p","d","f">>,
     body     |-> "statement",
     rows     |-> << [date |-> <<"0","5","/","0","1","/","2","0","2","4">>,
                     description |-> <<"R","A","M","A">>, credit |-> 3, debit |-> 0],
                    [date |-> <<"0","6","-","0","1","-","2","0","2","4">>,
                     description |-> <<"R","A","M","A","N">>, credit |-> 0, debit |-> 2] >>,
     error    |-> ""]

\* a workbook pandas cannot open, its extension in upper case
corrupt_xls ==
    [filename |-> <<"c",".","X","L","S">>,
     body     |-> "unreadable",
     rows     |-> <<>>,
     error    |-> "File is not a zip file"]

\* a PDF the extractor raises on
corrupt_pdf ==
    [filename |-> <<"d",".","p","d","f">>,
     body     |-> "unreadable",
     rows     |-> <<>>,
     error    |-> "Invalid PDF"]

\* a statement under a name that is not supported
notes_txt ==
    [filename |-> <<"e",".","T","X","T">>,
     body     |-> "statement",
     rows     |-> << [date |-> <<"0","5","/","0","1","/","2","0","2","4">>,
                     description |-> <<"R","A","M","A">>, credit |-> 3, debit |-> 0] >>,
     error    |-> ""]

\* a zero-byte upload, its extension in mixed case
empty_pdf ==
    [filename |-> <<"f",".","P","d","f">>,
     body     |-> "empty",
     rows     |-> <<>>,
     error    |-> ""]

\* a workbook without a row
blank_xlsx ==
    [filename |-> <<"g",".","x","l","s","x">>,
     body     |-> "statement",
     rows     |-> <<>>,
     error    |-> ""]

\* a PDF whose only row moves no money
blank_pdf ==
    [filename |-> <<"h",".","p","d","f">>,
     body     |-> "statement",
     rows     |-> << [date |-> <<"0","5","/","0","1","/","2","0","2","4">>,
                     description |-> <<"R","A","M","A">>, credit |-> 0, debit |-> 0] >>,
     error    |-> ""]

\* a workbook of one row
short_xlsx ==
    [filename |-> <<"i",".","x","l","s","x">>,
     body     |-> "statement",
     rows     |-> << [date |-> <<"0","5","/","0","1","/","2","0","2","4">>,
                     description |-> <<"R","A","M","A">>, credit |-> 3, debit |-> 0] >>,
     error    |-> ""]

\* two workbooks whose single narrations agree in their first 100 characters
alpha_xlsx ==
    [filename |-> <<"k",".","x","l","s","x">>,
     body     |-> "statement",
     rows     |-> << [date |-> <<"0","5","/","0","1","/","2","0","2","4">>,
                     description |-> <<"0","0","0","0","0","0","0","0","0","0","0","0","0","0","0","0","0","0","0","0","0","0","0","0","0","0","0","0","0","0","0","0","0","0","0","0","0","0","0","0","0","0","0","0","0","0","0","0","0","0","0","0","0","0","0","0","0","0","0","0","0","0","0","0","0","0","0","0","0","0","0","0","0","0","0","0","0","0","0","0","0","0","0","0","0","0","0","0","0","0","0","0","0","0","0","0","0","0","0","0"," ","T","O"," ","A","L","P","H","A">>, credit |-> 3, debit |-> 0] >>,
     error    |-> ""]

\* the second of them
betax_xlsx ==
    [filename |-> <<"l",".","x","l","s","x">>,
     body     |-> "statement",
     rows     |-> << [date |-> <<"0","5","/","0","1","/","2","0","2","4">>,
                     description |-> <<"0","0","0","0","0","0","0","0","0","0","0","0","0","0","0","0","0","0","0","0","0","0","0","0","0","0","0","0","0","0","0","0","0","0","0","0","0","0","0","0","0","0","0","0","0","0","0","0","0","0","0","0","0","0","0","0","0","0","0","0","0","0","0","0","0","0","0","0","0","0","0","0","0","0","0","0","0","0","0","0","0","0","0","0","0","0","0","0","0","0","0","0","0","0","0","0","0","0","0","0"," ","T","O"," ","B","E","T","A","X">>, credit |-> 3, debit |-> 0] >>,
     error    |-> ""]

\* a workbook whose narration the extractor and the normalizer read differently
stores_xlsx ==
    [filename |-> <<"m",".","x","l","s","x">>,
     body     |-> "statement",
     rows     |-> << [date |-> <<"0","5","/","0","1","/","2","0","2","4">>,
                     description |-> <<"R","A","M","A"," ","D","E","V","I"," ","S","T","O","R","E","S">>,
                     credit |-> 0, debit |-> 5] >>,
     error    |-> ""]

\* uploads to POST /api/analyze
Uploads ==
    {statement_xlsx, statement_pdf, corrupt_xls, corrupt_pdf, notes_txt,
     empty_pdf, blank_xlsx, blank_pdf}

\* uploads whose narrations share a cache key
LongUploads ==
    {alpha_xlsx, betax_xlsx}

\* uploads whose parties are looked up afterwards
LedgerUploads ==
    {statement_xlsx, statement_pdf}

\* files of a batch sent to POST /api/analyze/multi
BatchFiles ==
    {short_xlsx, statement_pdf, blank_xlsx, corrupt_xls, corrupt_pdf, notes_txt,
     empty_pdf}

Batches ==
    {<<f1, f2>> : f1 \in BatchFiles, f2 \in BatchFiles}

(* ------------------------------------------------------------------ *)
(* Specifications                                                      *)
(* ------------------------------------------------------------------ *)

\* the steps of the handlers after the request has arrived
Handle(r) ==
    \/ ReadDone(r)
    \/ ClearEngines(r)
    \/ Enrich(r)
    \/ Respond(r)

\* the steps of the tasks of a batch and of the extraction threads
HandleBatch(r) ==
    \/ \E i \in 1..2 : TaskStart(r, i)
    \/ \E i \in 1..2 : TaskRead(r, i)
    \/ \E i \in 1..2 : ExecutorLookup(r, i)
    \/ \E i \in 1..2 : ExecutorStore(r, i)
    \/ \E i \in 1..2 : ExecutorReturn(r, i)
    \/ \E i \in 1..2 : TaskResume(r, i)
    \/ GatherDone(r)

\* POST /api/analyze, two requests at a time
Next ==
    \/ \E r \in Requests, f \in Uploads : Analyze(r, f)
    \/ \E r \in Requests : Handle(r)

Spec ==
    Init /\ [][Next]_vars

\* POST /api/analyze with uploads that share a cache key
NextCache ==
    \/ \E r \in Requests, f \in LongUploads : Analyze(r, f)
    \/ \E r \in Requests : Handle(r)

SpecCache ==
    Init /\ [][NextCache]_vars

\* POST /api/analyze and GET /api/party/{party_name}
NextParty ==
    \/ \E r \in Requests, f \in LedgerUploads : Analyze(r, f)
    \/ \E r \in Requests : Handle(r)
    \/ \E party_name \in PartyNames : GetPartyDetails(party_name)

SpecParty ==
    Init /\ [][NextParty]_vars

\* POST /api/analyze/multi on one connection, POST /api/analyze on the other
NextMulti ==
    \/ \E fs \in Batches : AnalyzeMulti("r1", fs)
    \/ HandleBatch("r1")
    \/ Analyze("r2", statement_pdf)
    \/ \E r \in Requests : Handle(r)

SpecMulti ==
    Init /\ [][NextMulti]_vars

(* ------------------------------------------------------------------ *)
(* The ledger under registrations of parties that merge                *)
(* ------------------------------------------------------------------ *)
\* RAMA and RAMAN are similar enough for the auto-merge pass, FLIP is not
MergedDescriptions ==
    { <<"R","A","M","A">>, <<"R","A","M","A","N">>, <<"F","L","I","P"," ","L","T","D">> }

NextMerge ==
    \/ \E d \in MergedDescriptions, m \in Movements : ExtractEntity(d, m)
    \/ \E e1 \in MergeNames, e2 \in MergeNames : MergeEntities(e1, e2)
    \/ AutoMerge
    \/ Clear

SpecMerge ==
    InitLedger /\ [][NextMerge]_vars

(* ------------------------------------------------------------------ *)
(* The relation table driven directly: any sequence of                 *)
(* link_party_relation calls and clears                                *)
(* ------------------------------------------------------------------ *)
\* parties linked: "RAMA LTD" is stored under RAMA and "FLIP LTD" under FLIP,
\* "LTD" normalizes to the empty name
RelationParties ==
    { <<"R","A","M","A">>, <<"R","A","M","A"," ","L","T","D">>,
      <<"F","L","I","P"," ","L","T","D">>, <<"B","A","N","K">>, <<"L","T","D">> }

\* links are made while the table holds fewer than MaxLinks sent_to members
MaxLinks ==
    2

RECURSIVE LinkCount(_)
LinkCount(rels) ==
    IF Len(rels) = 0 THEN 0
    ELSE Cardinality(rels[1].sent_to) + LinkCount(Tail(rels))

LinkPartyRelation(from_party, to_party, amount, is_credit) ==
    /\ from_party # to_party
    /\ LinkCount(entity_relations) < MaxLinks
    /\ entity_relations' = link_party_relation(entity_relations, from_party, to_party,
                                               amount, is_credit)
    /\ UNCHANGED <<entities, regs, ff_transactions, party_cache, running, req, uploads,
                   party_response, chains, argument, returned>>

NextRelations ==
    \/ \E from_party \in RelationParties, to_party \in RelationParties,
          is_credit \in BOOLEAN : LinkPartyRelation(from_party, to_party, 3, is_credit)
    \/ Clear

SpecRelations ==
    Init /\ [][NextRelations]_vars

(* ------------------------------------------------------------------ *)
(* utils/encryption.py: get_encryption_key, encrypt_data, decrypt_data *)
(* ------------------------------------------------------------------ *)
\* `argument` is the process environment and the string handed to
\* encrypt_data; `returned` holds what encrypt_data returned and, once
\* decrypt_data has been called on it in the same process, what that returned.
\* A string is either a text or the base64 text of a Fernet token, which
\* only the key it was made with opens.

\* os.getenv("ENCRYPTION_KEY") is None
NoKey ==
    "absent"

\* values of ENCRYPTION_KEY: a Fernet key, and a text that is not one
ConfiguredKeys ==
    {"key-1", "not-a-key"}

\* keys Fernet.generate_key() may return
GeneratedKeys ==
    {"gen-1", "gen-2", "gen-3"}

\* Fernet(key) raises ValueError unless key is 32 url-safe base64 bytes
IsFernetKey(key) ==
    key \in GeneratedKeys \cup {"key-1"}

\* a text that is no token
Text(chars) ==
    [kind |-> "text", chars |-> chars, key |-> "none"]

\* base64.b64encode(Fernet(key).encrypt(data.encode())).decode()
Token(key, data) ==
    [kind |-> "token", chars |-> data.chars, key |-> key]

\* get_encryption_key: the configured key, else the key generated by this call
get_encryption_key(env, generated) ==
    IF env = NoKey THEN generated ELSE env

\* encrypt_data with the key its call of get_encryption_key returned; the
\* data is returned as it is when encryption raises
EncryptWith(key, data) ==
    IF IsFernetKey(key) THEN Token(key, data) ELSE data

\* decrypt_data with the key its call of get_encryption_key returned; the
\* input is returned as it is when decryption raises (no Fernet key, no
\* token, or a token of another key)
DecryptWith(key, encrypted_data) ==
    IF IsFernetKey(key) /\ encrypted_data.kind = "token" /\ encrypted_data.key = key
    THEN Text(encrypted_data.chars)
    ELSE encrypted_data

encrypt_data(env, generated, data) ==
    EncryptWith(get_encryption_key(env, generated), data)

decrypt_data(env, generated, encrypted_data) ==
    DecryptWith(get_encryption_key(env, generated), encrypted_data)

\* strings to protect
SensitiveData ==
    { Text(<<"P","A","N">>), Text(<<"4","2">>), Text(<<>>), Text(<<"A","/","C"," ","7">>),
      Text(<<"I","F","S","C">>), Text(<<"x">>), Text(<<"9","9","1">>), Text(<<"U","P","I","@","a">>) }

\* no result yet
NotDecrypted ==
    Text(<<"not decrypted">>)

\* a process starts with its environment and has a string to protect
ProcessStarts(env, data) ==
    /\ argument.called => (returned.called /\ returned.value.decrypted # NotDecrypted)
    /\ argument' = Called([env |-> env, data |-> data])
    /\ returned' = NotCalled
    /\ UNCHANGED <<entity_relations, entities, regs, ff_transactions, party_cache, running, req, uploads,
                   party_response, chains>>

\* encrypt_data(data); generated is what Fernet.generate_key() returns in
\* this call when no key is configured
EncryptData(generated) ==
    /\ argument.called /\ ~returned.called
    /\ returned' = Called([encrypted |-> encrypt_data(argument.value.env, generated,
                                                      argument.value.data),
                           decrypted |-> NotDecrypted])
    /\ UNCHANGED <<entity_relations, entities, regs, ff_transactions, party_cache, running, req, uploads,
                   party_response, chains, argument>>

\* decrypt_data(encrypted) later in the same process
DecryptData(generated) ==
    /\ returned.called
    /\ returned.value.decrypted = NotDecrypted
    /\ returned' = Called([returned.value EXCEPT
                              !.decrypted = decrypt_data(argument.value.env, generated,
                                                         returned.value.encrypted)])
    /\ UNCHANGED <<entity_relations, entities, regs, ff_transactions, party_cache, running, req, uploads,
                   party_response, chains, argument>>

NextEncryption ==
    \/ \E env \in ConfiguredKeys \cup {NoKey}, data \in SensitiveData : ProcessStarts(env, data)
    \/ \E generated \in GeneratedKeys : EncryptData(generated)
    \/ \E generated \in GeneratedKeys : DecryptData(generated)

SpecEncryption ==
    Init /\ [][NextEncryption]_vars

(* ------------------------------------------------------------------ *)
(* The extractors called on the cells and lines of a statement         *)
(* ------------------------------------------------------------------ *)
\* `argument` is what the extractor reads (the data rows of a PDF table,
\* the lines of the text of a PDF page, or the rows of a sheet) and
\* `returned` the rows it parsed and the transactions it returns.

\* the texts of an amount cell: empty, plain, with comma and zero fraction,
\* with a leading minus, in parentheses, with a currency sign
Cells ==
    { <<>>, <<"5","0","0">>, <<"1",",","2","5","0",".","0","0">>, <<"-","5","0","0">>, <<"(","5","0","0",")">>, <<"$","7","5">> }

\* the date and the narration of the rows
Day5Cell ==
    <<"0","5","/","0","1","/","2","0","2","4">>

RentCell ==
    <<"R","E","N","T">>

\* monetary amounts as a line of text writes them, and what they are worth
Money ==
    { [text |-> <<"5","0","0">>, value |-> 500],
      [text |-> <<"1",",","2","5","0",".","0","0">>, value |-> 1250] }

\* a line that starts a transaction and carries one amount
DatedLine(amount_text) ==
    Day5Cell \o <<" ">> \o RentCell \o <<" ">> \o amount_text

\* lines of the text of a page: with a date and one or two amounts, with a
\* date and no narration, a narration, an amount, a blank line
Lines ==
    { DatedLine(m.text) : m \in Money }
      \cup { DatedLine(<<"5","0","0"," ","1",",","2","5","0",".","0","0">>),
             Day5Cell \o <<" ","5","0","0">>,
             RentCell,
             <<"7","5","0">>,
             <<" "," ">> }

\* what the extractors of tables and sheets are given
Statements ==
    { [source |-> "table",
       rows |-> <<TableRow(Day5Cell, RentCell, c, d, b)>>] : c \in Cells, d \in Cells, b \in Cells }
      \cup { [source |-> "sheet",
              rows |-> <<SheetRow(Day5Cell, RentCell, c, d, b)>>] :
                c \in Cells, d \in Cells, b \in Cells }

\* the text of a page, of one or two lines
Texts ==
    { [source |-> "text", rows |-> <<a>>] : a \in Lines }
      \cup { [source |-> "text", rows |-> <<a, b>>] : a \in Lines, b \in Lines }

\* a statement reaches its extractor
StatementRead(statement) ==
    /\ argument.called => returned.called
    /\ argument' = Called(statement)
    /\ returned' = NotCalled
    /\ UNCHANGED <<entity_relations, entities, regs, ff_transactions, party_cache, running, req, uploads,
                   party_response, chains>>

\* PDFProcessor.extract_transactions: the rows of a strategy, then
\* transactions = self._validate_and_clean(transactions)
PdfExtracted(parsed) ==
    [parsed |-> parsed, transactions |-> validate_and_clean(parsed)]

\* ExcelProcessor.extract_transactions returns the rows of the sheets
SheetExtracted(parsed) ==
    [parsed |-> parsed, transactions |-> parsed]

\* _extract_with_pdfplumber on a page with a table
ExtractPdfTable ==
    /\ argument.called /\ ~returned.called
    /\ argument.value.source = "table"
    /\ returned' = Called(PdfExtracted(TableRows(argument.value.rows)))
    /\ UNCHANGED <<entity_relations, entities, regs, ff_transactions, party_cache, running, req, uploads,
                   party_response, chains, argument>>

\* _extract_with_pdfplumber on a page without tables, _extract_with_pypdf2
ExtractPdfText ==
    /\ argument.called /\ ~returned.called
    /\ argument.value.source = "text"
    /\ returned' = Called(PdfExtracted(parse_text_transactions(argument.value.rows)))
    /\ UNCHANGED <<entity_relations, entities, regs, ff_transactions, party_cache, running, req, uploads,
                   party_response, chains, argument>>

\* ExcelProcessor._extract_from_dataframe
ExtractSheet ==
    /\ argument.called /\ ~returned.called
    /\ argument.value.source = "sheet"
    /\ returned' = Called(SheetExtracted(extract_from_dataframe(argument.value.rows)))
    /\ UNCHANGED <<entity_relations, entities, regs, ff_transactions, party_cache, running, req, uploads,
                   party_response, chains, argument>>

NextExtract ==
    \/ \E statement \in Statements : StatementRead(statement)
    \/ \E text \in Texts : StatementRead(text)
    \/ ExtractPdfTable
    \/ ExtractPdfText
    \/ ExtractSheet

SpecExtract ==
    Init /\ [][NextExtract]_vars

(* ------------------------------------------------------------------ *)
(* The enrichment loops of the two analyze endpoints under faults      *)
(* ------------------------------------------------------------------ *)
\* `argument` holds the endpoint, the transactions its extractors returned
\* and, per transaction, the call of the loop body that raises; `returned`
\* is the answer of the endpoint.

Faults ==
    {"none", "extract_entity", "categorize_transaction"}

\* the transactions of a workbook, of a PDF, of a workbook of one row and of
\* the two files of a batch
ExtractedLedgers ==
    { excel_extract_transactions(EmptyCache, statement_xlsx).transactions,
      PdfTxns(PdfRows(statement_pdf.rows)),
      excel_extract_transactions(EmptyCache, stores_xlsx).transactions,
      excel_extract_transactions(EmptyCache, short_xlsx).transactions
        \o PdfTxns(PdfRows(statement_pdf.rows)) }

\* a fault, or none, for each transaction
FaultsFor(txns) ==
    [1..Len(txns) -> Faults]

\* the extractors have returned and the loop is about to start
LoopEntered(endpoint, txns, faults) ==
    /\ argument.called => returned.called
    /\ argument' = Called([endpoint |-> endpoint, transactions |-> txns, faults |-> faults])
    /\ returned' = NotCalled
    /\ UNCHANGED <<entity_relations, entities, regs, ff_transactions, party_cache, running, req, uploads,
                   party_response, chains>>

\* POST /api/analyze from the loop to the answer
AnswerSingle ==
    /\ argument.called
    /\ ~returned.called
    /\ argument.value.endpoint = "single"
    /\ returned' = Called(analyze_statement(argument.value.transactions,
                                            argument.value.faults))
    /\ UNCHANGED <<entity_relations, entities, regs, ff_transactions, party_cache, running, req, uploads,
                   party_response, chains, argument>>

\* POST /api/analyze/multi from the loop to the answer
AnswerMulti ==
    /\ argument.called
    /\ ~returned.called
    /\ argument.value.endpoint = "multi"
    /\ returned' = Called(analyze_multiple_statements(argument.value.transactions,
                                                      argument.value.faults))
    /\ UNCHANGED <<entity_relations, entities, regs, ff_transactions, party_cache, running, req, uploads,
                   party_response, chains, argument>>

NextEnrich ==
    \/ \E endpoint \in {"single", "multi"}, txns \in ExtractedLedgers :
         \E faults \in FaultsFor(txns) : LoopEntered(endpoint, txns, faults)
    \/ AnswerSingle
    \/ AnswerMulti

SpecEnrich ==
    Init /\ [][NextEnrich]_vars

(* ------------------------------------------------------------------ *)
(* PDFProcessor._parse_date called on the text of a date cell          *)
(* ------------------------------------------------------------------ *)
\* `argument` is the text handed to _parse_date and `returned` the string
\* (or None) it returns.

DayTexts ==
    { <<"0","5">>, <<"3","1">> }

MonthTexts ==
    { <<"0","1">>, <<"1","2">> }

YearTexts ==
    { <<"2","0","2","4">>, <<"1","9","9","9">>, <<"0","0","2","4">>, <<"0","0","3","2">> }

DateSeparators ==
    { <<"/">>, <<"-">>, <<".">> }

\* what a cell holds around its date
CellPrefixes ==
    { <<>>, <<" ">>, <<"D","t"," ">> }

\* day-first and year-first dates with each separator, alone or after text
DateTexts ==
    { p \o d \o s \o m \o s \o y :
        p \in CellPrefixes, d \in DayTexts, m \in MonthTexts, y \in YearTexts,
        s \in DateSeparators }
      \cup { p \o y \o s \o m \o s \o d :
               p \in CellPrefixes, d \in DayTexts, m \in MonthTexts, y \in YearTexts,
               s \in DateSeparators }

\* a row of a table or a line of text carries a date cell
DateCell(date_str) ==
    /\ argument.called => returned.called
    /\ argument' = Called(date_str)
    /\ returned' = NotCalled
    /\ UNCHANGED <<entity_relations, entities, regs, ff_transactions, party_cache, running, req, uploads,
                   party_response, chains>>

\* txn['date'] = self._parse_date(...)
ParseDate ==
    /\ argument.called
    /\ ~returned.called
    /\ returned' = Called(pdf_parse_date(argument.value))
    /\ UNCHANGED <<entity_relations, entities, regs, ff_transactions, party_cache, running, req, uploads,
                   party_response, chains, argument>>

NextPdfDate ==
    \/ \E date_str \in DateTexts : DateCell(date_str)
    \/ ParseDate

SpecPdfDate ==
    Init /\ [][NextPdfDate]_vars

(* ------------------------------------------------------------------ *)
(* The chain builder as the handlers drive it                          *)
(* ------------------------------------------------------------------ *)
\* Both handlers clear the builder, hand it the transactions of the request
\* in one call and build the chains.  `argument` holds the dictionaries of
\* that call, each with the file it was read from (origin); `returned` holds
\* what the calls of build_chains() on them have returned.

\* dates as the extractors write them: three days in a row and a day two
\* months later in the day-first form of the spreadsheet extractor, and two
\* days in the form the PDF extractor writes
FlowDates ==
    { <<"0","4","/","0","1","/","2","0","2","4">>,
      <<"0","5","/","0","1","/","2","0","2","4">>,
      <<"0","6","/","0","1","/","2","0","2","4">>,
      <<"2","0","/","0","3","/","2","0","2","4">>,
      <<"2","0","2","4","/","0","1","/","0","5">>,
      <<"2","0","2","4","/","0","3","/","2","0">> }

FileA ==
    <<"a",".","x","l","s","x">>

FileB ==
    <<"b",".","p","d","f">>

\* a dictionary of a transaction as the handlers pass it on
TxnData(date, party, credit, debit, is_transfer, origin) ==
    [date        |-> date,
     description |-> party,
     amount      |-> credit - debit,
     credit      |-> credit,
     debit       |-> debit,
     party       |-> party,
     is_transfer |-> is_transfer,
     is_upi      |-> FALSE,
     origin      |-> origin]

\* credits of 500 for A, for B and for no party
CreditData(origin) ==
    { TxnData(date, party, 500, 0, is_transfer, origin) :
        date \in FlowDates,
        party \in {<<"A">>, <<"b">>, None},
        is_transfer \in BOOLEAN }

\* the dates of the debits: 5 January 2024 as either extractor writes it
DebitDates ==
    { <<"0","5","/","0","1","/","2","0","2","4">>,
      <<"2","0","2","4","/","0","1","/","0","5">> }

\* debits for B of 500 and of amounts 2 and 3 away from it
DebitData(origin) ==
    { TxnData(date, <<"B">>, 0, debit, is_transfer, origin) :
        date \in DebitDates,
        debit \in {500, 502, 503},
        is_transfer \in BOOLEAN }

\* a number of transactions for one party, larger than the number of
\* matches a transaction takes
FanOut ==
    6

Day5 ==
    <<"0","5","/","0","1","/","2","0","2","4">>

\* one debit for B and FanOut credits that match it, and the reverse
FanBatches(origin1, origin2) ==
    { <<TxnData(Day5, <<"B">>, 0, 500, FALSE, origin1)>>
        \o [i \in 1..FanOut |-> TxnData(Day5, <<"A">>, 500, 0, FALSE, origin2)],
      <<TxnData(Day5, <<"A">>, 500, 0, FALSE, origin1)>>
        \o [i \in 1..FanOut |-> TxnData(Day5, <<"B">>, 0, 500, FALSE, origin2)] }

\* the transactions of a request: a credit and a debit, or a fan
FlowBatches(origin1, origin2) ==
    { <<c, d>> : c \in CreditData(origin1), d \in DebitData(origin2) }
      \cup FanBatches(origin1, origin2)

\* analyze_statement: fund_flow_builder.add_transactions(transactions,
\* file.filename)
AddFile(txns, filename) ==
    /\ ff_transactions = <<>>
    /\ argument' = Called(txns)
    /\ ff_transactions' = ff_transactions \o FlowTxns(txns, filename)
    /\ returned' = NotCalled
    /\ UNCHANGED <<entity_relations, entities, regs, party_cache, running, req, uploads, party_response,
                   chains>>

\* analyze_multiple_statements: fund_flow_builder.add_transactions(
\* all_transactions)
AddCombined(txns) ==
    /\ ff_transactions = <<>>
    /\ argument' = Called(txns)
    /\ ff_transactions' = ff_transactions \o FlowTxns(txns, <<>>)
    /\ returned' = NotCalled
    /\ UNCHANGED <<entity_relations, entities, regs, party_cache, running, req, uploads, party_response,
                   chains>>

\* the calls of build_chains() made on the transactions of one request
MaxBuilds ==
    2

\* the values the calls of build_chains() have returned since the
\* transactions were added: a None for each call
Builds(calls) ==
    IF calls.called THEN calls.value ELSE <<>>

\* a build that appends to the chains of the call before
BuildChainsAppending ==
    /\ ff_transactions # <<>>
    /\ Len(Builds(returned)) < MaxBuilds
    /\ chains' = chains \o build_chains(ff_transactions)
    /\ returned' = Called(Builds(returned) \o None)
    /\ UNCHANGED <<entity_relations, entities, regs, ff_transactions, party_cache, running, req, uploads,
                   party_response, argument>>

\* fund_flow_builder.build_chains()
BuildChains ==
    /\ ff_transactions # <<>>
    /\ Len(Builds(returned)) < MaxBuilds
    /\ chains' = build_chains(ff_transactions)
    /\ returned' = Called(Builds(returned) \o None)
    /\ UNCHANGED <<entity_relations, entities, regs, ff_transactions, party_cache, running, req, uploads,
                   party_response, argument>>

\* fund_flow_builder.clear() of the next request, whose handler has
\* transactions of its own
ClearBuilder ==
    /\ chains # <<>> \/ ff_transactions # <<>>
    /\ ff_transactions' = flow_clear
    /\ chains' = flow_clear
    /\ argument' = NotCalled
    /\ returned' = NotCalled
    /\ UNCHANGED <<entity_relations, entities, regs, party_cache, running, req, uploads, party_response>>

NextFlow ==
    \/ \E f \in {FileA, FileB} : \E txns \in FlowBatches(f, f) : AddFile(txns, f)
    \/ \E f1 \in {FileA, FileB}, f2 \in {FileA, FileB} :
          \E txns \in FlowBatches(f1, f2) : AddCombined(txns)
    \/ BuildChains
    \/ ClearBuilder

SpecFlow ==
    Init /\ [][NextFlow]_vars

(* ------------------------------------------------------------------ *)
(* The categorizer as the enrichment loop calls it                     *)
(* ------------------------------------------------------------------ *)
\* `argument` is the transaction handed to categorize_transaction and
\* `returned` the dictionary it returns.

\* the words of the narrations
NarrationWords ==
    { <<"s","a","l","a","r","y">>, <<"c","r","e","d","i","t">>,
      <<"c","a","s","h","b","a","c","k">>, <<"u","p","i">>,
      <<"E","M","I">>, <<"p","a","y","m","e","n","t">>,
      <<"b","i","l","l">>, <<"x","y","z">> }

\* narrations of one to three words
Narrations ==
    NarrationWords
      \cup { w1 \o <<" ">> \o w2 : w1 \in NarrationWords, w2 \in NarrationWords }
      \cup { w1 \o <<" ">> \o w2 \o <<" ">> \o w3 :
               w1 \in NarrationWords, w2 \in NarrationWords, w3 \in NarrationWords }

\* credit and debit of a row: a credit, a small debit, a large credit, a row
\* that moves nothing, and the negative amounts the table parser of the PDF
\* processor lets through
CategorizerMovements ==
    { <<500, 0>>, <<0, 5>>, <<0, 0>>, <<150000, 0>>, <<-500, 0>>, <<-500, 20>> }

CategorizerInputs ==
    { [description |-> d, credit |-> m[1], debit |-> m[2]] :
        d \in Narrations, m \in CategorizerMovements }

\* the loop of the handler comes to a transaction
NextTransaction(txn) ==
    /\ argument.called => returned.called
    /\ argument' = Called(txn)
    /\ returned' = NotCalled
    /\ UNCHANGED <<entity_relations, entities, regs, ff_transactions, party_cache, running, req, uploads,
                   party_response, chains>>

\* category_data = categorizer.categorize_transaction(txn)
Categorize ==
    /\ argument.called
    /\ ~returned.called
    /\ returned' = Called(categorize_transaction(argument.value))
    /\ UNCHANGED <<entity_relations, entities, regs, ff_transactions, party_cache, running, req, uploads,
                   party_response, chains, argument>>

NextCategorize ==
    \/ \E txn \in CategorizerInputs : NextTransaction(txn)
    \/ Categorize

SpecCategorize ==
    Init /\ [][NextCategorize]_vars

(* ------------------------------------------------------------------ *)
(* _normalize_name called on its own                                   *)
(* ------------------------------------------------------------------ *)
\* `argument` is the name handed to _normalize_name and `returned` the
\* string it returns.

\* tokens of the names: prefix tokens, aliases, a business suffix, plain names
NameTokens ==
    { <<"T","O">>, <<"N","E","W">>, <<"F","R","O","M">>, <<"A","C">>,
      <<"A","M","Z","N">>, <<"M","M">>, <<"P","V","T">>,
      <<"R","a","v","i">>, <<"T","O","N">>, <<"A","M","A","Z","O","N">> }

\* what stands between two tokens, or after one
NameJoints ==
    { <<>>, <<" ">>, <<"1">>, <<"-">> }

\* names of one or two tokens
NormalizeInputs ==
    { w \o j : w \in NameTokens, j \in NameJoints }
      \cup { w1 \o j \o w2 : w1 \in NameTokens, j \in NameJoints, w2 \in NameTokens }

\* a caller has a name to normalize
NextName(name) ==
    /\ argument.called => returned.called
    /\ argument' = Called(name)
    /\ returned' = NotCalled
    /\ UNCHANGED <<entity_relations, entities, regs, ff_transactions, party_cache, running, req, uploads,
                   party_response, chains>>

\* self._normalize_name(name)
NormalizeName ==
    /\ argument.called
    /\ ~returned.called
    /\ returned' = Called(normalize_name(argument.value))
    /\ UNCHANGED <<entity_relations, entities, regs, ff_transactions, party_cache, running, req, uploads,
                   party_response, chains, argument>>

NextNormalize ==
    \/ \E name \in NormalizeInputs : NextName(name)
    \/ NormalizeName

SpecNormalize ==
    Init /\ [][NextNormalize]_vars

(* ------------------------------------------------------------------ *)
(* The validation pass of the PDF extractor called on extracted rows   *)
(* ------------------------------------------------------------------ *)
\* `argument` is the list of rows handed to _validate_and_clean and
\* `returned` the list it returns.

Row(date, description, credit, debit, balance) ==
    [date |-> date, description |-> description, credit |-> credit, debit |-> debit,
     balance |-> balance]

\* rows as the table and text strategies leave them: with and without
\* amounts, balance, date and description
ExtractedRows ==
    { Row(Day5, <<"A","T","M">>, 0, 100, 1000),
      Row(Day5, <<"A","T","M">>, 0, 100, 900),
      Row(Day5, <<"N","E","F","T">>, 0, 0, 1750),
      Row(Day5, <<"N","E","F","T">>, 0, 0, 900),
      Row(Day5, <<"I","M","P","S">>, 0, 0, 1000),
      Row(Day5, <<"S","A","L","A","R","Y">>, 500, 0, 0),
      Row(<<>>, <<"U","P","I">>, 0, 0, 1750),
      Row(Day5, <<"R","E","F"," ","2","5","0">>, 0, 0, 0),
      Row(Day5, <<"R","E","F"," ","5","0">>, 0, 0, 0),
      Row(Day5, <<>>, 0, 0, 500) }

\* statements of one to three rows
ExtractedLists ==
    { <<a>> : a \in ExtractedRows }
      \cup { <<a, b>> : a \in ExtractedRows, b \in ExtractedRows }
      \cup { <<a, b, c>> : a \in ExtractedRows, b \in ExtractedRows, c \in ExtractedRows }

\* a strategy of extract_transactions has produced its rows
RowsExtracted(transactions) ==
    /\ argument.called => returned.called
    /\ argument' = Called(transactions)
    /\ returned' = NotCalled
    /\ UNCHANGED <<entity_relations, entities, regs, ff_transactions, party_cache, running, req, uploads,
                   party_response, chains>>

\* transactions = self._validate_and_clean(transactions)
ValidateAndClean ==
    /\ argument.called
    /\ ~returned.called
    /\ returned' = Called(validate_and_clean(argument.value))
    /\ UNCHANGED <<entity_relations, entities, regs, ff_transactions, party_cache, running, req, uploads,
                   party_response, chains, argument>>

NextValidate ==
    \/ \E transactions \in ExtractedLists : RowsExtracted(transactions)
    \/ ValidateAndClean

SpecValidate ==
    Init /\ [][NextValidate]_vars

(* ------------------------------------------------------------------ *)
(* Properties of the endpoints                                         *)
(* ------------------------------------------------------------------ *)

Answered(r, status_code) ==
    req[r].pc = "done" /\ req[r].response.status_code = status_code

\* the handler is between its clear() and its response
InFlight(r) ==
    req[r].pc \in {"enrich", "respond"}

\* the handler has all it needs to go on to its clear()
ReadyToClear(r) ==
    \/ req[r].pc = "read" /\ req[r].files[1].body = "statement"
    \/ /\ req[r].pc = "gather"
       /\ \A i \in 1..Len(req[r].tasks) : req[r].tasks[i].pc = "done"

\* the body is the one the handler builds from acc, the outcome of the loop
\* over the request's own transactions on cleared engines
AnswerWith(q, acc, merge) ==
    /\ q.response.body.transactions = acc.transactions
    /\ q.response.body.parties = get_party_ledger_summary(merge.entities)
    /\ q.response.body.chain_input = FlowTxns(acc.transactions, SourceFile(q))

AnswerOf(q, acc) ==
    AnswerWith(q, acc, MergedAfter(q, acc.entities))

OwnAnswer(q) ==
    AnswerOf(q, Enriched(clear, <<>>, q.extracted))

\* C2 (as amended): a handler keeps the event loop from its clear() to its
\* response, so every success response of either analyze endpoint carries
\* the transactions, ledger and chain input computed from the request's own
\* transactions alone, whatever other requests overlap with it.
C2_NoInterleaving ==
    \A r \in Requests :
        /\ req[r].pc \in {"clear", "enrich", "respond"} => running = r
        /\ Answered(r, 200) => OwnAnswer(req[r])

\* a request has registered its parties and not yet answered while another
\* request is ready to go on to its own clear()
C2_Witness ==
    \E a \in Requests, b \in Requests :
        /\ a # b
        /\ req[a].pc = "respond"
        /\ entities # <<>>
        /\ ReadyToClear(b)

\* C2 as stated: while a request is between its clear() and its response,
\* another request that is ready to clear the engines can be resumed
C2_Original ==
    \A a \in Requests, b \in Requests :
        (a # b /\ InFlight(a) /\ ReadyToClear(b))
            => ENABLED (ReadDone(b) \/ GatherDone(b))

\* the body of a request for this upload served by a process that has
\* served no request before
FreshBody(q, x) ==
    SinglePayload([q EXCEPT !.transactions = x.transactions,
                            !.found = x.found, !.fallback = x.fallback],
                  x.entities, FlowTxns(x.transactions, SourceFile(q)),
                  build_chains(FlowTxns(x.transactions, SourceFile(q))))

FreshAnswer(q) ==
    FreshBody(q, Enriched(clear, <<>>,
                          Extraction(EmptyCache, q.files[1]).transactions))

\* C3 as stated: the success payload of POST /api/analyze is the one a
\* process that served nothing before gives for the same upload
C3_Original ==
    \A r \in Requests :
        (Answered(r, 200) /\ req[r].endpoint = "single")
            => req[r].response.body = FreshAnswer(req[r])

\* the number of transactions the file yields in the multi handler
Yield(file) ==
    IF ~Supported(file.filename) \/ file.body # "statement" THEN 0
    ELSE IF IsExcel(file.filename) THEN Len(file.rows)
    ELSE Len(PdfRows(file.rows))

\* how many of the transactions come from the file of that name
FromFile(txns, filename) ==
    Cardinality({k \in 1..Len(txns) : txns[k].origin = filename})

\* how many files of the batch have that name
Sent(files, filename) ==
    Cardinality({i \in 1..Len(files) : files[i].filename = filename})

\* C4: a batch of two files that yield N1 and N2 transactions is answered
\* with files_processed = 2 and total_transactions = N1 + N2, and each file's
\* transactions are all there, whatever order the two tasks ended in.
C4_CountsAdd ==
    \A r \in Requests :
        ( /\ Answered(r, 200)
          /\ req[r].endpoint = "multi"
          /\ Yield(req[r].files[1]) > 0
          /\ Yield(req[r].files[2]) > 0 )
        => /\ req[r].response.body.files_processed = 2
           /\ req[r].response.body.total_transactions
                = Yield(req[r].files[1]) + Yield(req[r].files[2])
           /\ Len(req[r].response.body.transactions)
                = Yield(req[r].files[1]) + Yield(req[r].files[2])
           /\ \A i \in 1..2 :
                 FromFile(req[r].response.body.transactions, req[r].files[i].filename)
                   = Yield(req[r].files[i]) * Sent(req[r].files, req[r].files[i].filename)

\* a batch of a workbook and a PDF that share a transaction, answered after
\* the task of the second file ended first
C4_Witness ==
    \E r \in Requests :
        /\ Answered(r, 200)
        /\ req[r].endpoint = "multi"
        /\ req[r].completion = <<2, 1>>
        /\ req[r].files = <<short_xlsx, statement_pdf>>
        /\ req[r].response.body.total_transactions = 3

\* the file names of the entries of file_details
DetailNames(file_details) ==
    [k \in 1..Len(file_details) |-> file_details[k].filename]

\* the files the transactions come from
Origins(txns) ==
    [k \in 1..Len(txns) |-> txns[k].origin]

Repeated(x, n) ==
    [k \in 1..n |-> x]

\* the files of the batch in the given order: the names of those that yield
\* transactions, and the origins of their transactions
RECURSIVE NamesIn(_, _)
NamesIn(files, order) ==
    IF order = <<>> THEN <<>>
    ELSE (IF Yield(files[order[1]]) > 0 THEN <<files[order[1]].filename>> ELSE <<>>)
         \o NamesIn(files, Tail(order))

RECURSIVE OriginsIn(_, _)
OriginsIn(files, order) ==
    IF order = <<>> THEN <<>>
    ELSE Repeated(files[order[1]].filename, Yield(files[order[1]]))
         \o OriginsIn(files, Tail(order))

\* C5 (as amended): the combined transaction list and file_details follow
\* the upload order of the files, whatever order their tasks ended in.
C5_UploadOrder ==
    \A r \in Requests :
        (Answered(r, 200) /\ req[r].endpoint = "multi")
        => /\ DetailNames(req[r].response.body.file_details)
                = NamesIn(req[r].files, <<1, 2>>)
           /\ Origins(req[r].response.body.transactions)
                = OriginsIn(req[r].files, <<1, 2>>)

\* a batch whose second file was parsed before its first, answered with the
\* first file's entry and transactions in front
C5_Witness ==
    \E r \in Requests :
        /\ Answered(r, 200)
        /\ req[r].endpoint = "multi"
        /\ req[r].completion = <<2, 1>>
        /\ DetailNames(req[r].response.body.file_details)
             = <<short_xlsx.filename, statement_pdf.filename>>
        /\ Origins(req[r].response.body.transactions)[1] = short_xlsx.filename

\* C5 as stated: the combined transaction list and file_details follow the
\* order in which the tasks ended
C5_Original ==
    \A r \in Requests :
        (Answered(r, 200) /\ req[r].endpoint = "multi")
        => /\ DetailNames(req[r].response.body.file_details)
                = NamesIn(req[r].files, req[r].completion)
           /\ Origins(req[r].response.body.transactions)
                = OriginsIn(req[r].files, req[r].completion)

\* C6: in a batch, a file that is unsupported, empty, without transactions
\* or whose extractor raises gives no transaction and no file_details entry,
\* every other file gives all its transactions and one entry, and the answer
\* is 400 exactly when no file yields a transaction.
C6_FailingFilesSkipped ==
    \A r \in Requests :
        (req[r].pc = "done" /\ req[r].endpoint = "multi")
        => /\ req[r].response.status_code
                = (IF \A i \in 1..2 : Yield(req[r].files[i]) = 0 THEN 400 ELSE 200)
           /\ req[r].response.status_code = 200
                => /\ DetailNames(req[r].response.body.file_details)
                        = NamesIn(req[r].files, <<1, 2>>)
                   /\ \A i \in 1..2 :
                         FromFile(req[r].response.body.transactions,
                                  req[r].files[i].filename)
                           = Yield(req[r].files[i])
                               * Sent(req[r].files, req[r].files[i].filename)

\* a batch of a PDF whose extractor raises and a statement, answered 200 with
\* the statement alone
C6_Witness ==
    \E r \in Requests :
        /\ Answered(r, 200)
        /\ req[r].files = <<corrupt_pdf, statement_pdf>>
        /\ "pdf" \in req[r].reached
        /\ req[r].response.body.files_processed = 1
        /\ req[r].response.body.total_transactions = 2

\* the extractor POST /api/analyze chose could not read the upload
ExtractorFailed(q) ==
    /\ q.endpoint = "single"
    /\ q.pc = "done"
    /\ q.reached # {}
    /\ q.files[1].body = "unreadable"

\* the text is part of the detail
InDetail(q, text) ==
    /\ "detail" \in DOMAIN q.response.body
    /\ \E k \in 1..Len(q.response.body.detail) : q.response.body.detail[k] = text

\* C7 as stated: when the extractor fails, the answer is 400 and its detail
\* carries the extractor's error text
C7_Original ==
    \A r \in Requests :
        ExtractorFailed(req[r])
        => /\ req[r].response.status_code = 400
           /\ InDetail(req[r], req[r].files[1].error)

\* C8 as stated: when the PDF extractor raises, the answer is 500 with a
\* body whose status is 'error' and whose detail has the exception's text
C8_Original ==
    \A r \in Requests :
        (ExtractorFailed(req[r]) /\ IsPdf(req[r].files[1].filename))
        => /\ req[r].response.status_code = 500
           /\ "status" \in DOMAIN req[r].response.body
           /\ req[r].response.body.status = "error"
           /\ InDetail(req[r], req[r].files[1].error)

\* the name ends, whatever its case, in one of the three extensions
EndsInExtension(filename) ==
    \E k \in 1..3 : EndsWith(Lower(filename), SUPPORTED_EXTENSIONS[k])

C10_Original ==
    party_response.status # 0
        => (party_response.status = 404 <=> ~party_response.listed)

(* ------------------------------------------------------------------ *)
(* Fund flow chains                                                    *)
(* ------------------------------------------------------------------ *)

\* build_chains() has returned for the transactions of the request
ChainsBuilt ==
    returned.called /\ ff_transactions # <<>>

\* the builder reads the dates of credit c and debit d, the debit one day
\* after the credit
NextDay(c, d) ==
    /\ flow_parse_date(ff_transactions[c].date).ok
    /\ flow_parse_date(ff_transactions[d].date).ok
    /\ DaysApart(flow_parse_date(ff_transactions[c].date),
                 flow_parse_date(ff_transactions[d].date)) = 1

\* the builder holds one credit c of an amount for a party and one debit d
\* of that amount for another party, dated the day after, neither of them
\* flagged transfer or UPI
CreditThenDebit(c, d) ==
    /\ Len(ff_transactions) = 2
    /\ {c, d} = {1, 2}
    /\ ff_transactions[c].credit > 0 /\ ff_transactions[c].debit = 0
    /\ ff_transactions[d].debit = ff_transactions[c].credit
    /\ ff_transactions[d].credit = 0
    /\ ff_transactions[c].party # None /\ ff_transactions[d].party # None
    /\ Upper(ff_transactions[c].party) # Upper(ff_transactions[d].party)
    /\ ~ff_transactions[c].is_transfer /\ ~ff_transactions[d].is_transfer
    /\ NextDay(c, d)

\* C11: with one credit of X for A dated D and one debit of X for another
\* party B dated D+1, neither flagged transfer or UPI, build_chains leaves
\* exactly one chain, with flow_path "A -> B", total_amount X and
\* confidence 0.85; the credit pass adds none for the same pair
C11_OneChain ==
    \A c \in {1, 2}, d \in {1, 2} :
        (ChainsBuilt /\ CreditThenDebit(c, d))
            => /\ Len(chains) = 1
               /\ chains[1].flow_path
                    = ff_transactions[c].party \o Arrow \o ff_transactions[d].party
               /\ chains[1].total_amount = ff_transactions[c].credit
               /\ chains[1].confidence = 85
               /\ chains[1].transactions = <<c, d>>

C11_Witness ==
    /\ ChainsBuilt
    /\ CreditThenDebit(1, 2)
    /\ Len(chains) = 1
    /\ chains[1].confidence = 85

\* C12: after build_chains each pair of a credit and a debit is in at most
\* one chain, the chains of the two passes taken together, also when a
\* transaction has more than five matches
C12_PairsOnce ==
    ChainsBuilt
        => \A i \in 1..Len(chains), j \in 1..Len(chains) :
              i # j => chains[i].transactions # chains[j].transactions

\* a debit with FanOut matching credits: five chains from the debit pass and
\* the rest from the credit pass
C12_Witness ==
    /\ ChainsBuilt
    /\ Len(ff_transactions) = FanOut + 1
    /\ ff_transactions[1].debit > 0
    /\ Len(chains) = FanOut
    /\ \A i \in 1..Len(chains), j \in 1..Len(chains) :
          i # j => chains[i].transactions # chains[j].transactions

\* the legs of a chain were read from different files
CrossesFiles(chain) ==
    argument.value[chain.transactions[1]].origin
        # argument.value[chain.transactions[2]].origin

\* the number of chains whose legs were read from different files
CrossingChains ==
    Cardinality({i \in 1..Len(chains) : CrossesFiles(chains[i])})

\* C13 as stated: cross_pdf_links of a chain is 1 exactly when its legs come
\* from different source files, also for the chains of the multi handler,
\* and cross_file_links of the summary counts those chains
C13_Original ==
    ChainsBuilt
        => /\ \A i \in 1..Len(chains) :
                chains[i].cross_pdf_links = (IF CrossesFiles(chains[i]) THEN 1 ELSE 0)
           /\ get_chain_summary(chains).cross_file_links = CrossingChains

\* the year-first form in which the PDF extractor writes a date, after the
\* forms the builder reads
WrittenFormats ==
    FlowFormats \o << [sep |-> "/", order |-> <<"Y", "m", "d">>] >>

\* the day a date string of an extractor stands for
WrittenDate(date_str) ==
    FirstParse(date_str, WrittenFormats)

\* C14 as stated: the credit and the debit of every chain are dated at most
\* DATE_TOLERANCE_DAYS apart, whatever date strings the extractors wrote
C14_Original ==
    ChainsBuilt
        => \A i \in 1..Len(chains) :
              DaysApart(WrittenDate(ff_transactions[chains[i].transactions[1]].date),
                        WrittenDate(ff_transactions[chains[i].transactions[2]].date))
                <= DATE_TOLERANCE_DAYS

(* ------------------------------------------------------------------ *)
(* Categories                                                          *)
(* ------------------------------------------------------------------ *)

\* the lengths of the patterns of a category that match the description
MatchingLengths(category, description) ==
    { PatternLength(category.patterns[k]) :
        k \in {j \in 1..Len(category.patterns) :
                 Search(category.patterns[j], description)} }

\* the length of the longest pattern of any category that matches
LongestMatch(description) ==
    MaxOf(UNION { MatchingLengths(category_patterns[c], description) :
                    c \in 1..Len(category_patterns) } \cup {0})

\* the first category, in insertion order, that owns a matching pattern of
\* the given length
OwnerOf(description, length) ==
    category_patterns[
        MinOf({c \in 1..Len(category_patterns) :
                 length \in MatchingLengths(category_patterns[c], description)})].name

\* the category that owns the longest matching pattern
LongestOwner(description) ==
    OwnerOf(description, LongestMatch(description))

\* C15 as stated: categorize_transaction returns the category that owns the
\* longest of the patterns that match the description, the first such
\* category in insertion order
C15_Original ==
    (returned.called /\ LongestMatch(Lower(argument.value.description)) > 0)
        => returned.value.category = LongestOwner(Lower(argument.value.description))

\* C16: _normalize_name is idempotent: normalizing the name it returned
\* gives that name back, also for names that meet the alias table only once
\* their digits are gone and for names that begin with two prefix tokens.
C16_Original ==
    (returned.called /\ argument.value \in NormalizeInputs)
        => normalize_name(returned.value) = returned.value

\* the second pass as it stands on reaching row idx of the rows handed over
LoopBefore(idx) ==
    ValidateLoop(argument.value, idx - 1, median_change(argument.value))

\* row idx as the recovery finds it
RowAt(idx) ==
    DateRecovered(LoopBefore(idx).transactions, idx)

\* row idx comes to the recovery with credit = debit = 0, a balance above 0
\* and a previous balance known
BalanceCase(idx) ==
    /\ TxnKey(LoopBefore(idx).transactions[idx]) \notin LoopBefore(idx).seen
    /\ RowAt(idx).date # <<>> /\ RowAt(idx).description # <<>>
    /\ RowAt(idx).credit = 0 /\ RowAt(idx).debit = 0 /\ RowAt(idx).balance > 0
    /\ LoopBefore(idx).prev_balance.known

\* the change of balance of row idx against the previous balance
BalanceDelta(idx) ==
    RowAt(idx).balance - LoopBefore(idx).prev_balance.value

\* the row of the returned list that row idx became
ValidatedAt(idx) ==
    returned.value[Len(LoopBefore(idx).validated) + 1]

MatchingPatterns(s) ==
    {k \in 1..Len(DatePatterns) : PatternSearch(Strip(s), DatePatterns[k]) # <<>>}

\* the three fields of the date that the first matching pattern finds in s
MatchedFields(s) ==
    Fields(PatternSearch(Strip(s), DatePatterns[MinOf(MatchingPatterns(s))]), {"/", "-", "."})

\* the date of s written day/month/year: the fields as they stand for a
\* day-first pattern, turned round for the year-first pattern
DayFirst(s) ==
    IF DatePatterns[MinOf(MatchingPatterns(s))].runs = <<4, 2, 2>>
    THEN DayMonthYear(MatchedFields(s)[3], MatchedFields(s)[2], MatchedFields(s)[1])
    ELSE DayMonthYear(MatchedFields(s)[1], MatchedFields(s)[2], MatchedFields(s)[3])

\* C18: for every text that matches one of its four patterns,
\* PDFProcessor._parse_date returns the date as DD/MM/YYYY: unchanged in order
\* for DD/MM/YYYY, DD-MM-YYYY and DD.MM.YYYY, turned round for YYYY/MM/DD only.
C18_Original ==
    (returned.called /\ argument.value \in DateTexts /\ MatchingPatterns(argument.value) # {})
        => returned.value = DayFirst(argument.value)

\* a call of the loop body raised for some transaction of the request
SomeRaised ==
    \E i \in 1..Len(argument.value.transactions) :
        Raises(argument.value.transactions[i], argument.value.faults[i])

\* C19: in /api/analyze and in /api/analyze/multi an error raised while one
\* transaction is enriched is swallowed: the request succeeds, the
\* transaction is in the answer with what was written before the error, and
\* the transactions whose enrichment raised nothing are enriched to the end.
C19_Original ==
    (returned.called /\ argument.value \in [endpoint : {"single", "multi"},
                                            transactions : ExtractedLedgers,
                                            faults : UNION {FaultsFor(t) : t \in ExtractedLedgers}]
       /\ SomeRaised)
        => /\ returned.value.status_code = 200
           /\ Len(returned.value.body.transactions) = Len(argument.value.transactions)
           /\ \A i \in 1..Len(argument.value.transactions) :
                /\ returned.value.body.transactions[i].description
                     = argument.value.transactions[i].description
                /\ ~Raises(argument.value.transactions[i], argument.value.faults[i])
                     => returned.value.body.transactions[i].categorized

\* what C19 says holds for /api/analyze
SingleSwallows ==
    (returned.called /\ argument.value \in [endpoint : {"single"},
                                            transactions : ExtractedLedgers,
                                            faults : UNION {FaultsFor(t) : t \in ExtractedLedgers}]
       /\ SomeRaised)
        => /\ returned.value.status_code = 200
           /\ Len(returned.value.body.transactions) = Len(argument.value.transactions)
           /\ \A i \in 1..Len(argument.value.transactions) :
                ~Raises(argument.value.transactions[i], argument.value.faults[i])
                    => returned.value.body.transactions[i].categorized

\* no call of the loop body raises in the request
NoFault ==
    \A i \in 1..Len(argument.value.faults) : argument.value.faults[i] = "none"

\* party_to_register of transaction i of the request
ResolvedParty(i) ==
    PartyToRegister(argument.value.transactions[i].party,
                    argument.value.transactions[i].description).party

\* the table of entities when the loop comes to transaction i
EntitiesBefore(i) ==
    Enriched(<<>>, <<>>, SubSeq(argument.value.transactions, 1, i - 1)).entities

\* what extract_entity registers for transaction i: the key, or None
RegisteredKey(i) ==
    extract_entity(EntitiesBefore(i), argument.value.transactions[i].description,
                   TxnAmount(argument.value.transactions[i]),
                   argument.value.transactions[i].credit > 0).result

\* C20: when the enrichment has resolved a usable party P for a transaction,
\* the entity that is updated for the transaction is the one keyed by
\* _normalize_name(P), and that key is what the transaction carries as party
\* and detected_party.
C20_Original ==
    (returned.called /\ argument.value \in [endpoint : {"single", "multi"},
                                            transactions : ExtractedLedgers,
                                            faults : UNION {FaultsFor(t) : t \in ExtractedLedgers}]
       /\ NoFault)
        => \A i \in 1..Len(argument.value.transactions) :
             ~Blacklisted(ResolvedParty(i))
                 => /\ RegisteredKey(i) = normalize_name(ResolvedParty(i))
                    /\ returned.value.body.transactions[i].party
                         = normalize_name(ResolvedParty(i))

(* ------------------------------------------------------------------ *)
(* C21: what extract_entity returns and registers                      *)
(* ------------------------------------------------------------------ *)
\* the transaction_count held under name, 0 when name is no key
CountOf(ents, name) ==
    IF name \in Keys(ents) THEN ents[IndexOf(ents, name)].transaction_count ELSE 0

\* the keys whose transaction_count differs between two tables
Grown(before, after) ==
    {k \in Keys(before) \cup Keys(after) : CountOf(after, k) # CountOf(before, k)}

\* the call registered under exactly one key, once
GrewByOne(before, after) ==
    /\ Cardinality(Grown(before, after)) = 1
    /\ \A k \in Grown(before, after) : CountOf(after, k) = CountOf(before, k) + 1

\* what the claim says of a call that returned r on the table before
ReturnsRegisteredName(before, description, r) ==
    /\ description # <<>> => r.result # None
    /\ r.result # None => /\ r.result \in Keys(r.entities)
                          /\ GrewByOne(before, r.entities)

\* C21 as stated: on every table the ledger reaches, every call of
\* extract_entity with a non-empty description returns a name and never None,
\* and a returned name is a key of the table after the call, in which exactly
\* one entity's transaction_count is greater, by exactly 1
C21_Original ==
    \A d \in Descriptions, m \in Movements :
        ReturnsRegisteredName(entities, d,
                              extract_entity(entities, d, m.amount, m.is_credit))

(* ------------------------------------------------------------------ *)
(* C22, C23: the amounts of extracted transactions                     *)
(* ------------------------------------------------------------------ *)
\* credit, debit and balance of every row are magnitudes
NonNegative(transactions) ==
    \A i \in 1..Len(transactions) :
        /\ transactions[i].credit >= 0
        /\ transactions[i].debit >= 0
        /\ transactions[i].balance >= 0

\* C22 as stated: every transaction of the spreadsheet extractor and of the
\* PDF extractor (rows of a table, rows parsed from text, rows after the
\* validation pass) has credit >= 0, debit >= 0 and balance >= 0, whatever
\* the sign or the parentheses of the source cell
C22_Original ==
    returned.called =>
        /\ NonNegative(returned.value.parsed)
        /\ NonNegative(returned.value.transactions)

\* C23 as stated: a line of text with a date and exactly one monetary amount
\* yields a transaction whose balance is that amount and whose credit and
\* debit are 0; the digits of the date are not counted as amounts
C23_Original ==
    \A m \in Money :
        (/\ returned.called
         /\ argument.value.source = "text"
         /\ argument.value.rows = <<DatedLine(m.text)>>)
        => /\ Len(returned.value.parsed) = 1
           /\ returned.value.parsed[1].balance = m.value
           /\ returned.value.parsed[1].credit = 0
           /\ returned.value.parsed[1].debit = 0

(* ------------------------------------------------------------------ *)
(* C25: encryption round trip within one process                       *)
(* ------------------------------------------------------------------ *)
\* C25 as stated: within one process decrypt_data(encrypt_data(x)) = x for
\* every string x, with ENCRYPTION_KEY configured and with ENCRYPTION_KEY
\* absent
C25_Original ==
    (returned.called /\ returned.value.decrypted # NotDecrypted)
        => returned.value.decrypted = argument.value.data

(* ------------------------------------------------------------------ *)
(* C24: the relation table                                             *)
(* ------------------------------------------------------------------ *)
\* the sent_to set of a party, empty when the party has no entry
SentTo(party) ==
    UNION {entity_relations[i].sent_to :
             i \in {k \in 1..Len(entity_relations) : entity_relations[k].party = party}}

ReceivedFrom(party) ==
    UNION {entity_relations[i].received_from :
             i \in {k \in 1..Len(entity_relations) : entity_relations[k].party = party}}

\* every party that is a key or a member of a set of the table
RelatedParties ==
    RelationKeys(entity_relations)
      \cup UNION {SentTo(p) \cup ReceivedFrom(p) : p \in RelationKeys(entity_relations)}

\* C24 as stated: after any sequence of link_party_relation calls between
\* distinct parties, with is_credit true or false, no party is a member of
\* its own sent_to or received_from set, and B is in A's sent_to set exactly
\* when A is in B's received_from set
C24_Original ==
    /\ \A a \in RelatedParties : a \notin SentTo(a) \cup ReceivedFrom(a)
    /\ \A a \in RelatedParties, b \in RelatedParties :
          b \in SentTo(a) <=> a \in ReceivedFrom(b)

(* ------------------------------------------------------------------ *)
(* C26: merging conserves the ledger                                   *)
(* ------------------------------------------------------------------ *)
RECURSIVE SumInts(_)
SumInts(xs) ==
    IF Len(xs) = 0 THEN 0 ELSE xs[1] + SumInts(Tail(xs))

\* the absolute amounts registered as credit (is_credit) or as debit since
\* the last clear
RegisteredAs(is_credit) ==
    SumInts([k \in 1..Len(regs) |->
               IF regs[k].is_credit = is_credit THEN regs[k].amount ELSE 0])

\* a call that returned False, or was given the same entity twice, has left
\* the table as it was; r is what the call gives on the table ents
NothingChanged(ents, r, same) ==
    (~r.result \/ same) => r.entities = ents

\* C26: since the last clear, the transaction_counts of all entities add up
\* to the number of successful registrations, their total_credit and
\* total_debit to the absolute amounts registered as credit and as debit,
\* whatever merge_entities and auto_merge_similar_entities calls were made;
\* and a merge_entities call that returns False, or is given the same entity
\* twice, changes nothing
C26_MergeConserves ==
    /\ SumInts([i \in 1..Len(entities) |-> entities[i].transaction_count]) = Len(regs)
    /\ SumInts([i \in 1..Len(entities) |-> entities[i].total_credit]) = RegisteredAs(TRUE)
    /\ SumInts([i \in 1..Len(entities) |-> entities[i].total_debit]) = RegisteredAs(FALSE)
    /\ \A entity1 \in MergeNames, entity2 \in MergeNames :
          NothingChanged(entities, merge_entities(entities, entity1, entity2),
                         entity1 = entity2)

\* one entity holds, after merges, three registrations made under more than
\* one key, credits and debits among them
C26_Witness ==
    /\ Len(regs) = 3
    /\ Len(entities) = 1
    /\ entities[1].transaction_count = 3
    /\ entities[1].total_credit > 0
    /\ entities[1].total_debit > 0
    /\ \E k \in 1..Len(regs) : regs[k].key # entities[1].name

(* ------------------------------------------------------------------ *)
(* C27: a request rejected with 400 leaves the engines alone           *)
(* ------------------------------------------------------------------ *)
\* the handler of the request has not reached its clear(): the request is
\* not yet received, is being read or gathered, or is answered
BeforeClear(q) ==
    q.pc \in {"idle", "read", "gather", "done"}

\* the request is answered 400 by this step
Rejects(r) ==
    /\ req'[r] # req[r]
    /\ req'[r].pc = "done"
    /\ req'[r].response.status_code = 400

TestedAmount(txn) ==
    IF txn.credit # 0 THEN txn.credit ELSE txn.debit

C28_NeverUncategorized ==
    returned.called =>
        /\ returned.value.behavioral_deviation # "Uncategorized"
        /\ returned.value.category = "Unknown" =>
              /\ Matched(Lower(argument.value.description)).matched_category = ""
              /\ argument.value.credit <= 0
              /\ argument.value.debit <= 0
              /\ TestedAmount(argument.value) < 10
              /\ returned.value.behavioral_deviation = "Micro Transaction"

C28_Witness ==
    /\ returned.called
    /\ argument.value = [description |-> <<"x","y","z">>, credit |-> 0, debit |-> 0]
    /\ returned.value.category = "Unknown"
    /\ returned.value.behavioral_deviation = "Micro Transaction"

\* C29: in the payload of a successful /api/analyze/multi every transaction
\* whose party was overwritten during enrichment with a registered entity
\* key, and every party of a fund-flow chain built from such transactions,
\* names a party of the party ledger returned in the same payload, although
\* the auto-merge pass runs after enrichment and after build_chains.
\* The keys registered by the enrichment loop of a handler, before its
\* auto-merge pass: the loop starts on the table its clear() has emptied.
RegisteredKeys(q) ==
    Keys(Enriched(clear, <<>>, q.extracted).entities)

LedgerNames(parties) ==
    {parties[k].party_name : k \in 1..Len(parties)}

ChainParties(built) ==
    UNION {{built[c].flow_path_list[1], built[c].flow_path_list[2]} :
             c \in 1..Len(built)}

PayloadPartiesListed(q, keys) ==
    \A i \in 1..Len(q.response.body.transactions) :
        q.response.body.transactions[i].party \in keys
            => q.response.body.transactions[i].party
                  \in LedgerNames(q.response.body.parties)

C29_Original ==
    \A r \in Requests :
        /\ (/\ req[r].endpoint = "multi"
            /\ req[r].pc = "done"
            /\ req[r].response.status_code = 200)
              => PayloadPartiesListed(req[r], RegisteredKeys(req[r]))
        /\ (req[r].endpoint = "multi" /\ req[r].pc = "respond")
              => (ChainParties(chains) \cap RegisteredKeys(req[r]))
                     \subseteq Keys(entities)

\* C30: build_chains is idempotent: a call made without adding transactions
\* after an earlier call leaves the list of chains as that call left it
\* (same chains in the same order, hence same number, flow paths, amounts
\* and confidences), and after every call the chains are numbered
\* chain_0 .. chain_{n-1} without gaps.
NumberedFromZero(built) ==
    \A c \in 1..Len(built) : built[c].chain_id = c - 1

C30_BuildChainsIdempotent ==
    [][/\ returned'.called => NumberedFromZero(chains')
       /\ (/\ returned.called
           /\ returned'.called
           /\ Len(returned'.value) = Len(returned.value) + 1)
             => /\ ff_transactions' = ff_transactions
                /\ chains' = chains]_vars

C30_Witness ==
    /\ returned.called
    /\ Len(returned.value) = 2
    /\ Len(chains) > 1
    /\ chains[Len(chains)].chain_id = Len(chains) - 1
    /\ chains = build_chains(ff_transactions)
====
